---- MODULE Spec2Model ----
(***************************************************************************)
(* Model of the naming / metadata-derivation pipeline of mkbrr-wizard:     *)
(* hardlink_wizard.py (BTN season-pack hardlinker) and rip_renamer.py      *)
(* (disc rip renamer).                                                     *)
(*                                                                         *)
(* Python str values are TLA+ strings; TLC evaluates Len, \o and SubSeq on *)
(* them, so every function is computed character by character as the code  *)
(* computes it.  The two curly apostrophes U+2018 and U+2019 cannot be      *)
(* written in a TLA+ string literal; they are encoded by the otherwise      *)
(* unused characters LSQUO and RSQUO.                                       *)
(***************************************************************************)
EXTENDS Integers, Sequences, FiniteSets, TLC

VARIABLES
    name,       \* the input text: a title, a folder name or a filename stem
    op,         \* the function applied last ("none" before any)
    parts,      \* the tokens the input text was put together from
    ret,        \* what that function returned
    ret2,       \* the result of applying the function again to ret
    season_dir,         \* the file names of the season directory, as iterdir() yields them
    use_mi,             \* USE_MEDIAINFO and has_mediainfo()
    infos,              \* the probe outputs: of the files of a disc, or obtained so far
    video_files,        \* detect_season_metadata: the files to sample
    examined,           \* detect_season_metadata: the files sampled so far
    metadata_samples,   \* detect_season_metadata: the samples so far
    warnings,           \* the messages passed to warn()
    season_num,         \* process_seasons: the season of the directory
    dry_run,            \* process_seasons: nothing is to be changed
    season_metadata,    \* process_seasons: what detect_season_metadata returned
    files_done,         \* process_seasons: how many of video_files the loop has taken
    counts,             \* process_seasons: total, linked, already, skipped, errors, would_link
    fs_calls,           \* the calls that change the file system: mkdir and os.link
    link_calls,         \* process_seasons: what ensure_hardlink met and returned, call by call
    logs,               \* the messages passed to log()
    mediainfo_cache,    \* rip_renamer: _mediainfo_cache, the probe result of each path probed
    subprocess_calls,   \* the commands given to subprocess.run
    cfg,                \* the paths of mkbrr-wizard; elsewhere the arguments of the call
    runtime,            \* mkbrr-wizard: "docker" or "native"
    cwd,                \* the working directory of the process
    isatty,             \* sys.stdin.isatty()
    disk,               \* the paths that exist, each a "file" or a "dir"
    console,            \* mkbrr-wizard: the messages printed
    confirmed,          \* mkbrr-wizard: the commands confirm_cmd was given
    events,             \* what the program did to the outside world, in order
    presets_yaml,       \* the presets.yaml document as the loader finds it
    renames,            \* execute_renames_safely: the (old_path, new_path) pairs planned
    conflicts,          \* execute_renames_safely: the pairs the pre-flight check refused
    successful,         \* execute_renames_safely: the pairs renamed
    skipped,            \* execute_renames_safely: how many pairs were not renamed
    tmdb_cache,         \* the cached TMDB response of the cache key, None without one
    attempt,            \* _tmdb_request: the attempts begun
    last_error,         \* _tmdb_request: the exception met last
    discs,              \* run_auto_discovery: the discs of the series, in order
    current_ep,         \* run_auto_discovery: the first episode of the next disc
    episodes,           \* the (disc, file, episode) numbers assigned so far
    submitted,          \* prewarm_mediainfo_cache: the uncached paths submitted
    futures             \* prewarm_mediainfo_cache: the state of each submitted scan

pureVars == <<name, parts, op, ret, ret2>>
batchVars == <<season_dir, use_mi, infos, video_files, examined, metadata_samples, warnings>>
runVars == <<season_num, dry_run, season_metadata, files_done, counts, fs_calls, link_calls,
            logs>>
toolVars == <<mediainfo_cache, subprocess_calls>>
wizardVars == <<cfg, runtime, cwd, isatty, disk, console, confirmed>>
renameVars == <<renames, conflicts, successful, skipped>>
tmdbVars == <<tmdb_cache, attempt, last_error>>
discVars == <<discs, current_ep, episodes>>
poolVars == <<submitted, futures>>
otherVars == <<presets_yaml, renameVars, tmdbVars, discVars, poolVars>>
vars == <<name, parts, op, ret, ret2, season_dir, use_mi, infos, video_files, examined,
          metadata_samples, warnings, season_num, dry_run, season_metadata, files_done,
          counts, fs_calls, link_calls, logs, mediainfo_cache, subprocess_calls, cfg, runtime, cwd, isatty,
          disk, console, confirmed, events, presets_yaml, renames, conflicts, successful,
          skipped, tmdb_cache, attempt, last_error, discs, current_ep, episodes, submitted,
          futures>>

\* No batch is being processed
NoBatch ==
    /\ season_dir = <<>>
    /\ use_mi = FALSE
    /\ infos = <<>>
    /\ video_files = <<>>
    /\ examined = <<>>
    /\ metadata_samples = <<>>
    /\ warnings = <<>>

\* No script is running
NoRun ==
    /\ season_num = 0
    /\ dry_run = FALSE
    /\ season_metadata = <<>>
    /\ files_done = 0
    /\ counts = <<>>
    /\ fs_calls = <<>>
    /\ link_calls = <<>>
    /\ logs = <<>>

\* No external tool was run
NoTools ==
    /\ mediainfo_cache = <<>>
    /\ subprocess_calls = <<>>

\* The wizard is not running
NoWizard ==
    /\ cfg = <<>>
    /\ runtime = ""
    /\ cwd = "/"
    /\ isatty = FALSE
    /\ disk = <<>>
    /\ console = <<>>
    /\ confirmed = <<>>

\* No batch of renames is being executed
NoRenames ==
    /\ renames = <<>>
    /\ conflicts = <<>>
    /\ successful = <<>>
    /\ skipped = 0

\* No TMDB request is being made
NoTmdb ==
    /\ tmdb_cache = <<>>
    /\ attempt = 0
    /\ last_error = ""

\* No series is being numbered
NoDiscs ==
    /\ discs = <<>>
    /\ current_ep = 0
    /\ episodes = <<>>

\* No scan was submitted
NoPool ==
    /\ submitted = <<>>
    /\ futures = <<>>

\* None of the operations on presets, renames, TMDB, discs or the pool runs
NoOther ==
    /\ presets_yaml = <<>>
    /\ NoRenames
    /\ NoTmdb
    /\ NoDiscs
    /\ NoPool

-----------------------------------------------------------------------------
(* Bounds of the model *)

MaxNameLen == 4      \* characters of a title or folder name
MaxParts == 3        \* tokens of a filename stem
MaxFiles == 4        \* entries of a season directory, files of a disc
MaxTracks == 3       \* audio tracks of a file with several of them
MaxChannels == 9     \* the largest channel count of an audio track
MaxSeasonFiles == 3   \* entries of a season directory process_seasons works through
MaxProbes == 4        \* calls of the probing functions of rip_renamer.py in one run
MaxOperations == 2    \* operations of one run of mkbrr-wizard.py
MaxPresets == 3      \* keys of the presets mapping of presets.yaml
MaxRenames == 2      \* pairs of one batch of renames
MaxDiscs == 3        \* discs of a series
MaxDiscFiles == 2    \* files of one disc of a series
MaxScans == 3        \* files given to prewarm_mediainfo_cache
MaxWorkers == 2      \* max_workers of the thread pool

-----------------------------------------------------------------------------
(* Characters and Python str primitives *)

Ch(s, i) == SubSeq(s, i, i)

UpperChars == "ABCDEFGHIJKLMNOPQRSTUVWXYZ"
LowerChars == "abcdefghijklmnopqrstuvwxyz"
DigitChars == "0123456789"

CharsOf(s) == {Ch(s, i) : i \in 1..Len(s)}

UpperSet == CharsOf(UpperChars)
LowerSet == CharsOf(LowerChars)
DigitSet == CharsOf(DigitChars)
AlnumSet == UpperSet \cup LowerSet \cup DigitSet

\* str.isspace() for the characters the model uses
SpaceSet == {" ", "\t"}

APOS  == "'"    \* U+0027, the ASCII apostrophe
LSQUO == "<"    \* stands for U+2018, the left curly apostrophe
RSQUO == ">"    \* stands for U+2019, the right curly apostrophe

LowerMap == [c \in UpperSet |-> Ch(LowerChars, CHOOSE i \in 1..26 : Ch(UpperChars, i) = c)]
UpperMap == [c \in LowerSet |-> Ch(UpperChars, CHOOSE i \in 1..26 : Ch(LowerChars, i) = c)]

LowerCh(c) == IF c \in UpperSet THEN LowerMap[c] ELSE c
UpperCh(c) == IF c \in LowerSet THEN UpperMap[c] ELSE c

RECURSIVE StrLower(_)
StrLower(s) == IF s = "" THEN "" ELSE LowerCh(Ch(s, 1)) \o StrLower(Tail(s))

RECURSIVE StrUpper(_)
StrUpper(s) == IF s = "" THEN "" ELSE UpperCh(Ch(s, 1)) \o StrUpper(Tail(s))

\* sub in s
Contains(s, sub) ==
    \E i \in 1..(Len(s) - Len(sub) + 1) : SubSeq(s, i, i + Len(sub) - 1) = sub

\* s.replace(c, "") for a one-character c
RECURSIVE RemoveChar(_, _)
RemoveChar(s, c) ==
    IF s = "" THEN ""
    ELSE (IF Ch(s, 1) = c THEN "" ELSE Ch(s, 1)) \o RemoveChar(Tail(s), c)

\* s.strip(chars)
RECURSIVE LStrip(_, _)
LStrip(s, cs) == IF s # "" /\ Ch(s, 1) \in cs THEN LStrip(Tail(s), cs) ELSE s

RECURSIVE RStrip(_, _)
RStrip(s, cs) ==
    IF s # "" /\ Ch(s, Len(s)) \in cs THEN RStrip(SubSeq(s, 1, Len(s) - 1), cs) ELSE s

Strip(s, cs) == RStrip(LStrip(s, cs), cs)

\* re.sub(r"[^A-Za-z0-9]+", ".", s): every maximal run of characters outside
\* [A-Za-z0-9] becomes one dot
RECURSIVE SubNonAlnumRuns(_)
SubNonAlnumRuns(s) ==
    IF s = "" THEN ""
    ELSE IF Ch(s, 1) \in AlnumSet THEN Ch(s, 1) \o SubNonAlnumRuns(Tail(s))
    ELSE "." \o SubNonAlnumRuns(LStrip(s, CharsOf(s) \ AlnumSet))

\* re.sub(r"\.+", ".", s): every maximal run of dots becomes one dot
RECURSIVE SubDotRuns(_)
SubDotRuns(s) ==
    IF s = "" THEN ""
    ELSE IF Ch(s, 1) # "." THEN Ch(s, 1) \o SubDotRuns(Tail(s))
    ELSE "." \o SubDotRuns(LStrip(s, {"."}))

\* First index >= i of character c in s, 0 when there is none
IndexFrom(s, c, i) ==
    IF \E j \in i..Len(s) : Ch(s, j) = c
    THEN CHOOSE j \in i..Len(s) : Ch(s, j) = c /\ \A k \in i..(j - 1) : Ch(s, k) # c
    ELSE 0

\* re.sub(open .*? close, "", s): scanning left to right, every opening
\* character that has a closing character after it is deleted together with
\* everything up to the first such closing character
RECURSIVE SubDelimited(_, _, _)
SubDelimited(s, open, close) ==
    IF s = "" THEN ""
    ELSE IF Ch(s, 1) = open /\ IndexFrom(s, close, 2) # 0
         THEN SubDelimited(SubSeq(s, IndexFrom(s, close, 2) + 1, Len(s)), open, close)
         ELSE Ch(s, 1) \o SubDelimited(Tail(s), open, close)

-----------------------------------------------------------------------------
(* Slugs *)

\* hardlink_wizard.slugify_title with the strip(".") done before the
\* substitutions instead of after them
slugify_title_StripFirst(title) ==
    SubDotRuns(SubNonAlnumRuns(
        RemoveChar(RemoveChar(RemoveChar(Strip(title, {"."}), APOS), APOS), APOS)))

\* hardlink_wizard.slugify_title: the three replace() calls of the source all
\* name U+0027
slugify_title(title) ==
    Strip(SubDotRuns(SubNonAlnumRuns(
              RemoveChar(RemoveChar(RemoveChar(title, APOS), APOS), APOS))),
          {"."})

\* rip_renamer.slugify_title: the same pipeline (the debug() call has no effect
\* on the result)
rr_slugify_title(title) ==
    Strip(SubDotRuns(SubNonAlnumRuns(
              RemoveChar(RemoveChar(RemoveChar(title, APOS), APOS), APOS))),
          {"."})

\* The slug pipeline of guess_series_slug, applied to the folder name
series_slug_of(folder) ==
    Strip(SubDotRuns(SubNonAlnumRuns(
              Strip(SubDelimited(SubDelimited(folder, "(", ")"), "{", "}"), SpaceSet))),
          {"."})

\* guess_series_slug(src_root), src_root.name being the folder name
guess_series_slug(folder) == series_slug_of(folder)

-----------------------------------------------------------------------------
(* Regular expressions (module re).  A pattern is a sequence of atoms; an   *)
(* atom is a character class repeated between lo and hi times (hi = -1: no  *)
(* upper limit).  Every pattern of the model that contains a letter is     *)
(* compiled with re.IGNORECASE: its classes hold lower-case characters and  *)
(* it is matched against the lower-cased subject, Fold(text), whose         *)
(* positions are those of text.                                             *)

One(cs)    == <<[cs |-> cs, neg |-> FALSE, lo |-> 1, hi |-> 1]>>
Opt(cs)    == <<[cs |-> cs, neg |-> FALSE, lo |-> 0, hi |-> 1]>>
Star(cs)   == <<[cs |-> cs, neg |-> FALSE, lo |-> 0, hi |-> -1]>>
Plus(cs)   == <<[cs |-> cs, neg |-> FALSE, lo |-> 1, hi |-> -1]>>
Rep(cs, lo, hi) == <<[cs |-> cs, neg |-> FALSE, lo |-> lo, hi |-> hi]>>
StarNot(cs) == <<[cs |-> cs, neg |-> TRUE, lo |-> 0, hi |-> -1]>>
Lit(str)   == [i \in 1..Len(str) |->
                  [cs |-> {LowerCh(Ch(str, i))}, neg |-> FALSE, lo |-> 1, hi |-> 1]]

Fold(text) == StrLower(text)

AtomOK(a, c) == (c \in a.cs) # a.neg

\* The positions after atom a matched from position p of s
AtomEnds(a, s, p) ==
    LET room == Len(s) - p + 1
        most == IF a.hi < 0 \/ a.hi > room THEN room ELSE a.hi
    IN  {p + n : n \in {m \in a.lo..most : \A k \in 0..(m - 1) : AtomOK(a, Ch(s, p + k))}}

\* The positions after atoms k.. of pat matched from some position of P
RECURSIVE EndsFrom(_, _, _, _)
EndsFrom(pat, k, s, P) ==
    IF k > Len(pat) \/ P = {} THEN P
    ELSE EndsFrom(pat, k + 1, s, UNION {AtomEnds(pat[k], s, p) : p \in P})

\* pattern.match at position p: the set of end positions
MatchEnds(pat, s, p) == EndsFrom(pat, 1, s, {p})

\* pattern.match at position p is not None (a first atom that must match a
\* character is tried before the rest)
MatchesAt(pat, s, p) ==
    /\ pat[1].lo = 0 \/ (p <= Len(s) /\ AtomOK(pat[1], Ch(s, p)))
    /\ MatchEnds(pat, s, p) # {}

\* The first position >= p at which pat matches; 0 when there is none
RECURSIVE FindFrom(_, _, _)
FindFrom(pat, s, p) ==
    IF p > Len(s) + 1 THEN 0
    ELSE IF MatchesAt(pat, s, p) THEN p
    ELSE FindFrom(pat, s, p + 1)

\* The start of the leftmost match of re.search(pat, s); 0 when there is none
SearchStart(pat, s) == FindFrom(pat, s, 1)

\* re.search(pat, s) is not None
Search(pat, s) == SearchStart(pat, s) # 0

\* re.search over a set of alternative patterns (p1|p2|...)
SearchAny(pats, s) == \E pat \in pats : Search(pat, s)

Max(S) == CHOOSE x \in S : \A y \in S : y <= x

\* m.group(0) of re.search(pat, text, re.IGNORECASE) for a pattern whose
\* quantifiers are greedy and which, like those used here, has one way to
\* match from a given start
SearchGroup(pat, text) ==
    LET s == Fold(text)
        p == SearchStart(pat, s)
    IN  SubSeq(text, p, Max(MatchEnds(pat, s, p)) - 1)

-----------------------------------------------------------------------------
(* Signal extractors of hardlink_wizard.py *)

FALLBACK_META ==
    [resolution |-> "1080p", source |-> "BluRay", audio |-> "TrueHD",
     codec |-> "H.264", remux |-> TRUE]

\* r"(\d{3,4}p)"
ResolutionPattern == Rep(DigitSet, 3, 4) \o Lit("p")

detect_resolution(text) ==
    IF Search(ResolutionPattern, Fold(text))
    THEN SearchGroup(ResolutionPattern, text)
    ELSE FALLBACK_META.resolution

\* detect_source whose fallback reads a key that FALLBACK_META lacks and so
\* yields the empty string
detect_source_EmptyFallback(text) ==
    LET lower == StrLower(text)
    IN  IF Contains(lower, "bluray") \/ Contains(lower, "blu-ray") THEN "BluRay"
        ELSE IF Contains(lower, "web") THEN "WEB"
        ELSE ""

detect_source(text) ==
    LET lower == StrLower(text)
    IN  IF Contains(lower, "bluray") \/ Contains(lower, "blu-ray") THEN "BluRay"
        ELSE IF Contains(lower, "web") THEN "WEB"
        ELSE FALLBACK_META.source

detect_remux(text) == Contains(StrLower(text), "remux")

detect_codec(text) ==
    LET lower == StrLower(text)
    IN  IF Contains(lower, "hevc") \/ Contains(lower, "x265") \/ Contains(lower, "h265")
        THEN "H.265"
        ELSE IF Contains(lower, "h264") \/ Contains(lower, "x264") THEN "H.264"
        ELSE FALLBACK_META.codec

\* r"(\d\.\d)"
ChannelsPattern == One(DigitSet) \o Lit(".") \o One(DigitSet)

\* r"atmos"
AtmosPattern == Lit("atmos")

\* r"Dolby\s*Digital": the part of the AC-3 alternative before its lookahead
DolbyDigital == Lit("dolby") \o Star(SpaceSet) \o Lit("digital")

\* Dolby\s*Digital(?!\s*Plus): a match of Dolby\s*Digital that no \s*Plus
\* follows
SpacesPlus == Star(SpaceSet) \o Lit("plus")

SearchDolbyDigitalNotPlus(s) ==
    \E p \in 1..Len(s) :
        /\ Ch(s, p) = "d"
        /\ \E e \in MatchEnds(DolbyDigital, s, p) : ~MatchesAt(SpacesPlus, s, e)

DtsHd == Lit("dts") \o Opt({"-"} \cup SpaceSet) \o Lit("hd")

\* The audio_codecs table of detect_audio, in its order: the alternatives of
\* the pattern, the label, supports_atmos.  Entry 8 also has the lookahead
\* alternative SearchDolbyDigitalNotPlus.
audio_codecs == <<
    [pats |-> {DtsHd \o Opt(SpaceSet \cup {"."}) \o Lit("ma")},
     label |-> "DTS-HD.MA", supports_atmos |-> FALSE],
    [pats |-> {DtsHd \o Opt(SpaceSet \cup {"."}) \o Lit("hr") \o Opt({"a"})},
     label |-> "DTS-HD.HRA", supports_atmos |-> FALSE],
    [pats |-> {DtsHd}, label |-> "DTS-HD", supports_atmos |-> FALSE],
    [pats |-> {Lit("dts")}, label |-> "DTS", supports_atmos |-> FALSE],
    [pats |-> {Lit("truehd")}, label |-> "TrueHD", supports_atmos |-> TRUE],
    [pats |-> {Lit("flac")}, label |-> "FLAC", supports_atmos |-> FALSE],
    [pats |-> {Lit("eac3"), Lit("e-ac") \o Opt({"-"}) \o Lit("3"), Lit("ddp"), Lit("dd+"),
               Lit("dolby") \o Star(SpaceSet) \o Lit("digital") \o Star(SpaceSet)
                   \o Lit("plus")},
     label |-> "DDP", supports_atmos |-> TRUE],
    [pats |-> {Lit("ac3")}, label |-> "DD", supports_atmos |-> FALSE],
    [pats |-> {Lit("aac")}, label |-> "AAC", supports_atmos |-> FALSE],
    [pats |-> {Lit("lpcm"), Lit("pcm")}, label |-> "LPCM", supports_atmos |-> FALSE],
    [pats |-> {Lit("opus")}, label |-> "Opus", supports_atmos |-> FALSE] >>

\* re.search(pattern, name, re.IGNORECASE) for entry i of the table, s being
\* the folded name
CodecEntryMatches(i, s) ==
    \/ SearchAny(audio_codecs[i].pats, s)
    \/ i = 8 /\ SearchDolbyDigitalNotPlus(s)

\* The index of the first entry from i on that matches; 0 when none does
RECURSIVE FirstCodecEntryFrom(_, _)
FirstCodecEntryFrom(i, s) ==
    IF i > Len(audio_codecs) THEN 0
    ELSE IF CodecEntryMatches(i, s) THEN i
    ELSE FirstCodecEntryFrom(i + 1, s)

\* The for loop of detect_audio: the first entry of the table that matches
FirstCodecEntry(text) == FirstCodecEntryFrom(1, Fold(text))

\* detect_audio that appends the A whenever the text names Atmos, whatever the
\* codec
detect_audio_AtmosUngated(text) ==
    LET channels  == IF Search(ChannelsPattern, text)
                     THEN SearchGroup(ChannelsPattern, text) ELSE "2.0"
        has_atmos == Search(AtmosPattern, Fold(text))
        i         == FirstCodecEntry(text)
    IN  IF i # 0
        THEN IF has_atmos
             THEN audio_codecs[i].label \o "A" \o channels
             ELSE audio_codecs[i].label \o channels
        ELSE FALLBACK_META.audio \o channels

detect_audio(text) ==
    LET channels  == IF Search(ChannelsPattern, text)
                     THEN SearchGroup(ChannelsPattern, text) ELSE "2.0"
        has_atmos == Search(AtmosPattern, Fold(text))
        i         == FirstCodecEntry(text)
    IN  IF i # 0
        THEN IF has_atmos /\ audio_codecs[i].supports_atmos
             THEN audio_codecs[i].label \o "A" \o channels
             ELSE audio_codecs[i].label \o channels
        ELSE FALLBACK_META.audio \o channels

\* The alternatives of the source and res groups of the quality block
\* pattern, and source_map
QualitySources == {"bluray", "hdtv", "webdl", "webrip"}
QualityResolutions == {"720p", "1080p", "2160p"}

source_map(source_raw) ==
    CASE source_raw = "bluray" -> "BluRay"
      [] source_raw = "hdtv"   -> "HDTV"
      [] source_raw = "webdl"  -> "WEB-DL"
      [] source_raw = "webrip" -> "WEBRip"
      [] OTHER                 -> "BluRay"

\* r"\[(?P<source>...)-(?P<res>...)" and the r"[^\]]*\]" that ends the pattern
QualityHead(src, res) == Lit("[") \o Lit(src) \o Lit("-") \o Lit(res)
QualityTail == StarNot({"]"}) \o Lit("]")
\* r"(?P<remux>\s+Remux)?": [^\]]* matches whatever \s+Remux matches, so the
\* group takes part in the match exactly when \s+Remux matches after res
QualityRemux == Plus(SpaceSet) \o Lit("remux")

\* The whole pattern for each pair of alternatives
QualityPatterns ==
    [a \in QualitySources \X QualityResolutions |-> QualityHead(a[1], a[2]) \o QualityTail]

QualityMatchesAt(s, p) ==
    /\ p <= Len(s)
    /\ Ch(s, p) = "["
    /\ \E a \in QualitySources \X QualityResolutions : MatchesAt(QualityPatterns[a], s, p)

\* The start of the leftmost match of the quality block pattern from p on;
\* 0 when there is none
RECURSIVE QualityFindFrom(_, _)
QualityFindFrom(s, p) ==
    IF p > Len(s) THEN 0
    ELSE IF QualityMatchesAt(s, p) THEN p
    ELSE QualityFindFrom(s, p + 1)

\* The match object of re.search(quality block pattern, text, re.IGNORECASE):
\* where it starts and its source and res alternatives; start = 0: no match
QualityMatch(text) ==
    LET s == Fold(text)
        p == QualityFindFrom(s, 1)
    IN  IF p = 0 THEN [start |-> 0]
        ELSE LET alt == CHOOSE a \in QualitySources \X QualityResolutions :
                            MatchesAt(QualityPatterns[a], s, p)
             IN  [start |-> p, src |-> alt[1], res |-> alt[2]]

\* detect_source_and_resolution that takes the Remux flag from the whole text
\* instead of the block
detect_source_and_resolution_LooseRemux(text) ==
    LET m == QualityMatch(text)
    IN  IF m.start # 0
        THEN LET resAt  == m.start + 1 + Len(m.src) + 1
                 resEnd == resAt + Len(m.res)
             IN  <<source_map(StrLower(SubSeq(text, m.start + 1, m.start + Len(m.src)))),
                   SubSeq(text, resAt, resEnd - 1),
                   detect_remux(text)>>
        ELSE <<detect_source(text), detect_resolution(text), detect_remux(text)>>

detect_source_and_resolution(text) ==
    LET m == QualityMatch(text)
    IN  IF m.start # 0
        THEN LET resAt  == m.start + 1 + Len(m.src) + 1
                 resEnd == resAt + Len(m.res)
             IN  <<source_map(StrLower(SubSeq(text, m.start + 1, m.start + Len(m.src)))),
                   SubSeq(text, resAt, resEnd - 1),
                   MatchesAt(QualityRemux, Fold(text), resEnd)>>
        ELSE <<detect_source(text), detect_resolution(text), detect_remux(text)>>

-----------------------------------------------------------------------------
(* Python values of a probe (the JSON mediainfo prints), tagged with their  *)
(* type.  A dict is a function from its keys to values, a list a sequence.  *)
(* An outcome of a call is the value it returned or the exception it raised. *)

VNone == [t |-> "none"]
VStr(s) == [t |-> "str", v |-> s]
VInt(n) == [t |-> "int", v |-> n]
VDict(f) == [t |-> "dict", v |-> f]
VList(q) == [t |-> "list", v |-> q]

Return(x) == [val |-> x]
Raise(e) == [exc |-> e]
Raised(r) == "exc" \in DOMAIN r

\* d.get(k, default)
Get(d, k, default) == IF k \in DOMAIN d THEN d[k] ELSE default

\* bool(x)
Truthy(x) ==
    CASE x.t = "none" -> FALSE
      [] x.t = "str"  -> x.v # ""
      [] x.t = "int"  -> x.v # 0
      [] x.t = "dict" -> DOMAIN x.v # {}
      [] x.t = "list" -> Len(x.v) > 0

\* str(n) for an integer n
RECURSIVE IntToStr(_)
IntToStr(n) ==
    IF n < 0 THEN "-" \o IntToStr(0 - n)
    ELSE IF n < 10 THEN Ch(DigitChars, n + 1)
    ELSE IntToStr(n \div 10) \o Ch(DigitChars, (n % 10) + 1)

\* str(x) for the scalar values a probe field holds
PyStr(x) ==
    CASE x.t = "str"  -> x.v
      [] x.t = "int"  -> IntToStr(x.v)
      [] x.t = "none" -> "None"

\* int(s) accepts surrounding whitespace, one sign and decimal digits
\* (underscores between digits, which it also accepts, are not in the model)
IntBody(s) ==
    LET t == Strip(s, SpaceSet)
    IN  IF t # "" /\ Ch(t, 1) \in {"+", "-"} THEN Tail(t) ELSE t

IsIntLiteral(s) ==
    LET b == IntBody(s) IN b # "" /\ \A i \in 1..Len(b) : Ch(b, i) \in DigitSet

RECURSIVE DigitsValue(_)
DigitsValue(b) ==
    IF b = "" THEN 0
    ELSE 10 * DigitsValue(SubSeq(b, 1, Len(b) - 1))
         + (CHOOSE d \in 0..9 : Ch(DigitChars, d + 1) = Ch(b, Len(b)))

IntOf(s) ==
    LET t == Strip(s, SpaceSet)
    IN  IF t # "" /\ Ch(t, 1) = "-" THEN 0 - DigitsValue(IntBody(s))
        ELSE DigitsValue(IntBody(s))

\* f"{n:0{width}d}" for n >= 0
RECURSIVE ZeroPad(_, _)
ZeroPad(n, width) ==
    LET s == IntToStr(n)
    IN  IF Len(s) >= width THEN s ELSE "0" \o ZeroPad(n, width - 1)

-----------------------------------------------------------------------------
(* Probe adapter of hardlink_wizard.py *)

\* get_track_by_type(media_info, track_type), order = 1 as in every call:
\* the first track of that type, as a dict value, or None
get_track_by_type(media_info, track_type) ==
    LET media == Get(media_info, "media", VNone)
    IN  IF media.t # "dict" THEN VNone
        ELSE LET tracks == Get(media.v, "track", VList(<<>>))
             IN  IF tracks.t # "list" THEN VNone
                 ELSE LET hits == {i \in 1..Len(tracks.v) :
                                      /\ tracks.v[i].t = "dict"
                                      /\ Get(tracks.v[i].v, "@type", VNone) = VStr(track_type)}
                      IN  IF hits = {} THEN VNone
                          ELSE tracks.v[CHOOSE i \in hits : \A j \in hits : i <= j]

\* _get_str(track, key, default)
_get_str(track, key, default) ==
    LET value == Get(track, key, VStr(default))
    IN  IF value.t # "none" THEN PyStr(value) ELSE default

\* codec_map of detect_metadata_from_mediainfo
codec_map ==
    ("AVC" :> "H.264") @@ ("H.264" :> "H.264") @@ ("HEVC" :> "H.265")
    @@ ("H.265" :> "H.265") @@ ("VP9" :> "VP9") @@ ("AV1" :> "AV1")
    @@ ("MPEG-2" :> "MPEG2") @@ ("MPEG2" :> "MPEG2") @@ ("XVID" :> "Xvid")
    @@ ("DIVX" :> "DivX")

\* The resolution token of detect_metadata_from_mediainfo for a parsed height
mi_resolution(height_int, scan_type) ==
    LET suffix == IF StrLower(scan_type) = "interlaced" THEN "i" ELSE "p"
    IN  IF height_int >= 2160 THEN "2160" \o suffix
        ELSE IF height_int >= 1080 THEN "1080" \o suffix
        ELSE IF height_int >= 720 THEN "720" \o suffix
        ELSE IF height_int >= 576 THEN "576p"
        ELSE IF height_int >= 480 THEN "480p"
        ELSE IntToStr(height_int) \o suffix

\* The audio token of detect_metadata_from_mediainfo for the audio track
mi_audio_token(audio) ==
    LET audio_format     == _get_str(audio, "Format", "")
        audio_commercial == _get_str(audio, "Format_Commercial_IfAny", "")
        channels         == _get_str(audio, "Channels", "2")
        audio_title      == _get_str(audio, "Title", "")
        ch_count         == IntOf(channels)
        ch_str == IF ~IsIntLiteral(channels) THEN "2.0"      \* except ValueError
                  ELSE IF ch_count >= 8 THEN "7.1"
                  ELSE IF ch_count >= 6 THEN "5.1"
                  ELSE IF ch_count = 1 THEN "1.0"
                  ELSE "2.0"
        has_atmos == \/ Contains(StrLower(audio_commercial), "atmos")
                     \/ Contains(StrLower(audio_title), "atmos")
        fmt == StrUpper(audio_format)
        com == StrUpper(audio_commercial)
        audio_label ==
            IF Contains(fmt, "MLP FBA") \/ Contains(com, "TRUEHD")
            THEN (IF has_atmos THEN "TrueHDA" ELSE "TrueHD")
            ELSE IF \/ Contains(fmt, "E-AC-3")
                    \/ Contains(com, "DDP")
                    \/ Contains(audio_commercial, "DD+")
            THEN (IF has_atmos THEN "DDPA" ELSE "DDP")
            ELSE IF Contains(fmt, "AC-3") \/ fmt = "AC3" THEN "DD"
            ELSE IF Contains(com, "DTS-HD MA") THEN "DTS-HD.MA"
            ELSE IF Contains(com, "DTS-HD") THEN "DTS-HD"
            ELSE IF Contains(fmt, "DTS") THEN "DTS"
            ELSE IF Contains(fmt, "AAC") THEN "AAC"
            ELSE IF Contains(fmt, "FLAC") THEN "FLAC"
            ELSE IF Contains(fmt, "PCM") \/ Contains(fmt, "LPCM") THEN "LPCM"
            ELSE IF Contains(fmt, "OPUS") THEN "Opus"
            ELSE FALLBACK_META.audio
    IN  audio_label \o ch_str

\* detect_metadata_from_mediainfo(file_path): stem is file_path.stem,
\* mi_available is USE_MEDIAINFO and has_mediainfo(), info is what
\* get_mediainfo_json(file_path) returned (a dict value or None).  The outcome
\* is Return(None), Return(metadata) or the exception of int() at line 377.
detect_metadata_from_mediainfo(stem, mi_available, info) ==
    IF ~mi_available THEN Return(VNone)
    ELSE IF ~Truthy(info) THEN Return(VNone)
    ELSE LET video == get_track_by_type(info.v, "Video") IN
    IF ~Truthy(video) THEN Return(VNone)
    ELSE LET audio     == get_track_by_type(info.v, "Audio")
             height    == _get_str(video.v, "Height", "")
             scan_type == _get_str(video.v, "ScanType", "Progressive")
             spaceless == RemoveChar(height, " ")
         IN
    IF height # "" /\ ~IsIntLiteral(spaceless) THEN Raise("ValueError")
    ELSE LET resolution == IF height # "" THEN mi_resolution(IntOf(spaceless), scan_type)
                           ELSE FALLBACK_META.resolution
             format_name == StrUpper(_get_str(video.v, "Format", ""))
             codec == IF format_name \in DOMAIN codec_map THEN codec_map[format_name]
                      ELSE IF format_name # "" THEN format_name
                      ELSE FALLBACK_META.codec
             general == get_track_by_type(info.v, "General")
             title == IF Truthy(general) THEN _get_str(general.v, "Title", "") ELSE ""
             extra == Get(video.v, "extra", VNone)
             original_source ==
                 IF extra.t = "dict"
                 THEN PyStr(Get(extra.v, "OriginalSourceMedium", VStr("")))
                 ELSE ""
             ltitle == StrLower(title)
             source == IF \/ Contains(StrLower(original_source), "blu-ray")
                          \/ Contains(ltitle, "bluray")
                       THEN "BluRay"
                       ELSE IF Contains(ltitle, "web") THEN "WEB-DL"
                       ELSE IF Contains(ltitle, "hdtv") THEN "HDTV"
                       ELSE detect_source(stem)
             remux == Contains(ltitle, "remux") \/ Contains(StrLower(stem), "remux")
             audio_token == IF Truthy(audio) THEN mi_audio_token(audio.v)
                            ELSE FALLBACK_META.audio \o "2.0"
         IN  Return([resolution |-> resolution, source |-> source,
                     audio |-> audio_token, codec |-> codec, remux |-> remux])

-----------------------------------------------------------------------------
(* Probe adapter of rip_renamer.py.  A probe field that the code treats as a *)
(* str without checking may hold a str, an int or null; the operation that   *)
(* fails on an int or null is the outcome.                                   *)

AUDIO_PRIORITY ==
    ("truehd atmos" :> 100) @@ ("truehd" :> 90) @@ ("dts-x" :> 85)
    @@ ("dts-hd ma" :> 80) @@ ("dts-hd" :> 75) @@ ("lpcm" :> 70) @@ ("flac" :> 65)
    @@ ("dts" :> 50) @@ ("ac3" :> 40) @@ ("aac" :> 30) @@ ("mp3" :> 20)

\* The (audio_name, priority) chain of parse_audio_track, lines 331-374
audio_name_of(track) ==
    LET commercial == Get(track, "Format_Commercial_IfAny", VStr(""))
        format_raw == Get(track, "Format", VStr(""))
        additional == Get(track, "Format_AdditionalFeatures", VStr(""))
        named(n, key) == Return(<<n, AUDIO_PRIORITY[key]>>)
    IN  IF commercial.t # "str" THEN Raise("TypeError")     \* "TrueHD" in commercial
        ELSE IF Contains(commercial.v, "TrueHD")
        THEN IF additional.t # "str" THEN Raise("TypeError")
             ELSE IF Contains(additional.v, "Atmos") \/ Contains(commercial.v, "Atmos")
             THEN named("TrueHD Atmos", "truehd atmos")
             ELSE named("TrueHD", "truehd")
        ELSE IF ~Contains(commercial.v, "DTS") /\ format_raw.t # "str"
        THEN Raise("AttributeError")                        \* format_raw.upper()
        ELSE LET fmt == IF format_raw.t = "str" THEN format_raw.v ELSE ""
                 up  == StrUpper(fmt)
             IN  IF Contains(commercial.v, "DTS") \/ Contains(up, "DTS")
                 THEN IF Contains(commercial.v, "X") THEN named("DTS-X", "dts-x")
                      ELSE IF \/ Contains(commercial.v, "MA")
                              \/ Contains(commercial.v, "Master Audio")
                      THEN named("DTS-HD MA", "dts-hd ma")
                      ELSE IF Contains(commercial.v, "HD") THEN named("DTS-HD", "dts-hd")
                      ELSE named("DTS", "dts")
                 ELSE IF Contains(up, "MLP") THEN named("TrueHD", "truehd")
                 ELSE IF Contains(up, "FLAC") THEN named("FLAC", "flac")
                 ELSE IF Contains(up, "PCM") THEN named("LPCM", "lpcm")
                 ELSE IF Contains(up, "AAC") THEN named("AAC", "aac")
                 ELSE IF Contains(fmt, "AC-3") \/ Contains(up, "AC3") THEN named("AC3", "ac3")
                 ELSE IF Contains(up, "MP3") \/ Contains(fmt, "MPEG Audio")
                 THEN named("MP3", "mp3")
                 ELSE Return(<<"Unknown", 0>>)

\* str(channels).split(): the whitespace-separated words
RECURSIVE SplitWords(_)
SplitWords(s) ==
    LET t == LStrip(s, SpaceSet)
    IN  IF t = "" THEN <<>>
        ELSE LET ends == {i \in 1..Len(t) : Ch(t, i) \in SpaceSet}
                 n    == IF ends = {} THEN Len(t) + 1
                         ELSE CHOOSE i \in ends : \A j \in ends : i <= j
             IN  <<SubSeq(t, 1, n - 1)>> \o SplitWords(SubSeq(t, n, Len(t)))

\* The channel layout of parse_audio_track for a channel count
rr_channel_layout(ch_count) ==
    IF ch_count >= 8 THEN "7.1"
    ELSE IF ch_count >= 6 THEN "5.1"
    ELSE IF ch_count >= 2 THEN "2.0"
    ELSE "1.0"

\* parse_audio_track(track): Return(<<audio_name, ch_str, priority>>) or the
\* exception raised
parse_audio_track(track) ==
    LET named == audio_name_of(track)
        channels == Get(track, "Channels", VStr("2"))
        words == SplitWords(PyStr(channels))
    IN  IF Raised(named) THEN named
        ELSE IF ~Truthy(channels)
        THEN Return(<<named.val[1], rr_channel_layout(2), named.val[2]>>)
        ELSE IF words = <<>> THEN Raise("IndexError")
        ELSE IF ~IsIntLiteral(words[1]) THEN Raise("ValueError")
        ELSE Return(<<named.val[1], rr_channel_layout(IntOf(words[1])), named.val[2]>>)


\* lang_map of detect_metadata_from_file
lang_map ==
    ("ja" :> "JA") @@ ("jpn" :> "JA") @@ ("japanese" :> "JA")
    @@ ("en" :> "EN") @@ ("eng" :> "EN") @@ ("english" :> "EN")
    @@ ("zh" :> "ZH") @@ ("chi" :> "ZH") @@ ("chinese" :> "ZH")
    @@ ("ko" :> "KO") @@ ("kor" :> "KO") @@ ("korean" :> "KO")
    @@ ("fr" :> "FR") @@ ("fre" :> "FR") @@ ("french" :> "FR")
    @@ ("de" :> "DE") @@ ("ger" :> "DE") @@ ("german" :> "DE")
    @@ ("es" :> "ES") @@ ("spa" :> "ES") @@ ("spanish" :> "ES")
    @@ ("it" :> "IT") @@ ("ita" :> "IT") @@ ("italian" :> "IT")
    @@ ("pt" :> "PT") @@ ("por" :> "PT") @@ ("portuguese" :> "PT")
    @@ ("ru" :> "RU") @@ ("rus" :> "RU") @@ ("russian" :> "RU")

\* The order of str values: code point by code point, a proper prefix first
AsciiOrder ==
    " !#$%&'()*+,-./0123456789:;<=>?@ABCDEFGHIJKLMNOPQRSTUVWXYZ[]^_abcdefghijklmnopqrstuvwxyz{|}~"

AsciiRank ==
    [c \in CharsOf(AsciiOrder) |-> CHOOSE i \in 1..Len(AsciiOrder) : Ch(AsciiOrder, i) = c]

RECURSIVE StrLess(_, _)
StrLess(a, b) ==
    IF b = "" THEN FALSE
    ELSE IF a = "" THEN TRUE
    ELSE IF Ch(a, 1) = Ch(b, 1) THEN StrLess(Tail(a), Tail(b))
    ELSE AsciiRank[Ch(a, 1)] < AsciiRank[Ch(b, 1)]

\* sorted(strs) for a collection of distinct str values
RECURSIVE Sorted(_)
Sorted(strs) ==
    IF strs = {} THEN <<>>
    ELSE LET least == CHOOSE x \in strs : \A y \in strs \ {x} : StrLess(x, y)
         IN  <<least>> \o Sorted(strs \ {least})

\* ordered_langs, had the code sorted all codes alike
ordered_langs_AllSorted(seen_langs) == Sorted(seen_langs)

\* "JA first if present, then EN, then others": lines 526-533 and 1967-1974
ordered_langs(seen_langs) ==
    (IF "JA" \in seen_langs THEN <<"JA">> ELSE <<>>)
    \o (IF "EN" \in seen_langs THEN <<"EN">> ELSE <<>>)
    \o Sorted(seen_langs \ {"JA", "EN"})

\* The source loop of detect_metadata_from_file (lines 427-437) from track i
\* on: Return(source) or the exception raised
RECURSIVE rr_source_from(_, _, _)
rr_source_from(tracks, i, source) ==
    IF i > Len(tracks) THEN Return(source)
    ELSE LET extra == Get(tracks[i].v, "extra", VDict(<<>>))
             source_medium == Get(extra.v, "OriginalSourceMedium", VStr(""))
         IN  IF extra.t # "dict" THEN Raise("AttributeError")
             ELSE IF ~Truthy(source_medium) THEN rr_source_from(tracks, i + 1, source)
             ELSE IF source_medium.t # "str" THEN Raise("TypeError")
             ELSE IF Contains(source_medium.v, "Blu-ray") THEN Return("Bluray")
             ELSE IF Contains(source_medium.v, "DVD") THEN Return("DVD")
             ELSE IF Contains(source_medium.v, "HDTV") THEN Return("HDTV")
             ELSE Return(source)

\* The resolution and codec of detect_metadata_from_file (lines 440-467) for
\* the video track: Return(<<resolution, codec>>) or the exception raised
rr_video_of(video_track, resolution, codec) ==
    LET height      == Get(video_track, "Height", VNone)
        spaceless   == RemoveChar(PyStr(height), " ")
        h           == IntOf(spaceless)
        codec_id    == Get(video_track, "CodecID", VStr(""))
        format_name == Get(video_track, "Format", VStr(""))
        bit_depth   == PyStr(Get(video_track, "BitDepth", VStr("8")))
        fmt         == StrUpper(format_name.v)
        cid         == StrUpper(codec_id.v)
        res == IF ~Truthy(height) THEN resolution
               ELSE IF h >= 2160 THEN "2160p"
               ELSE IF h >= 1080 THEN "1080p"
               ELSE IF h >= 720 THEN "720p"
               ELSE IF h >= 576 THEN "576p"
               ELSE "480p"
        with(c) == Return(<<res, c \o " " \o bit_depth \o "bit">>)
    IN  IF Truthy(height) /\ ~IsIntLiteral(spaceless) THEN Raise("ValueError")
        ELSE IF format_name.t # "str" THEN Raise("AttributeError")
        ELSE IF Contains(fmt, "HEVC") THEN with("H.265")
        ELSE IF codec_id.t # "str" THEN Raise("AttributeError")
        ELSE IF Contains(cid, "V_MPEGH") THEN with("H.265")
        ELSE IF Contains(fmt, "AVC") \/ Contains(cid, "V_MPEG4/ISO/AVC") THEN with("H.264")
        ELSE IF Contains(fmt, "AV1") THEN with("AV1")
        ELSE IF Contains(fmt, "VC-1") \/ Contains(cid, "VC1") THEN with("VC-1")
        ELSE Return(<<res, codec>>)

\* The audio loop of detect_metadata_from_file (lines 509-520) from track i
\* on: Return of the best audio and the languages seen, or the exception
RECURSIVE rr_audio_from(_, _, _, _, _)
rr_audio_from(audio_tracks, i, best_priority, best_audio, seen_langs) ==
    IF i > Len(audio_tracks) THEN Return([audio |-> best_audio, langs |-> seen_langs])
    ELSE LET parsed == parse_audio_track(audio_tracks[i].v)
             language == Get(audio_tracks[i].v, "Language", VStr(""))
             lang == StrLower(language.v)
             better == parsed.val[3] > best_priority
         IN  IF Raised(parsed) THEN parsed
             ELSE IF language.t # "str" THEN Raise("AttributeError")
             ELSE rr_audio_from(audio_tracks, i + 1,
                      IF better THEN parsed.val[3] ELSE best_priority,
                      IF better THEN parsed.val[1] \o " " \o parsed.val[2] ELSE best_audio,
                      IF lang \in DOMAIN lang_map THEN seen_langs \cup {lang_map[lang]}
                      ELSE seen_langs)


\* round(float(duration_str) / 60, 1) in tenths of a minute, for a whole
\* number of seconds.  (An exact half, seconds = 3 mod 6, is rounded by the
\* binary value of the quotient in the code and to even here; no probe of the
\* model has such a duration.)
duration_tenths(seconds) ==
    LET q == (seconds * 10) \div 60
        r == (seconds * 10) % 60
    IN  IF 2 * r < 60 THEN q
        ELSE IF 2 * r > 60 THEN q + 1
        ELSE IF q % 2 = 0 THEN q ELSE q + 1

\* The metadata dict detect_metadata_from_file starts from, lines 397-405
rr_default_metadata ==
    [resolution |-> "1080p", source |-> "Bluray", codec |-> "H.264 8bit",
     audio |-> "FLAC 2.0", remux |-> TRUE, languages |-> <<>>,
     duration_minutes |-> VNone]

\* metadata["duration_minutes"] of detect_metadata_from_file, lines 417-424,
\* for the General tracks of the probe
rr_duration(general) ==
    LET duration_str == IF general = <<>> THEN VNone
                        ELSE Get(general[1].v, "Duration", VNone)
    IN  IF ~Truthy(duration_str) THEN VNone
        ELSE IF duration_str.t = "int" THEN VInt(duration_tenths(duration_str.v))
        ELSE IF duration_str.t = "str" /\ IsIntLiteral(duration_str.v)
        THEN VInt(duration_tenths(IntOf(duration_str.v)))
        ELSE VNone                     \* except (ValueError, TypeError)

\* What detect_metadata_from_file returns or raises, given the outcomes of
\* its three parts in the order the code runs them: the source loop, the
\* video track, the audio loop (has_audio: there is an audio track)
rr_metadata_of(duration, source, picture, sound, has_audio) ==
    IF Raised(source) THEN source
    ELSE IF Raised(picture) THEN picture
    ELSE IF Raised(sound) THEN sound
    ELSE Return([resolution |-> picture.val[1],
                 source |-> source.val,
                 codec |-> picture.val[2],
                 audio |-> IF has_audio THEN sound.val.audio ELSE rr_default_metadata.audio,
                 remux |-> rr_default_metadata.remux,
                 languages |-> IF ~has_audio THEN rr_default_metadata.languages
                               ELSE IF sound.val.langs = {} THEN <<"JA">>
                               ELSE ordered_langs(sound.val.langs),
                 duration_minutes |-> duration])

\* detect_metadata_from_file(file_path): info is what
\* run_mediainfo_json(file_path) returned (a dict value or None).  The outcome
\* is Return(metadata) or the exception raised; duration_minutes is None or
\* an int value of tenths of a minute.
detect_metadata_from_file(info) ==
    LET media  == Get(info.v, "media", VDict(<<>>))
        listed == Get(media.v, "track", VList(<<>>))
        tracks == IF listed.t = "list" THEN listed.v ELSE <<>>
        ofType(ty) == SelectSeq(tracks, LAMBDA tr : Get(tr.v, "@type", VNone) = VStr(ty))
        video == ofType("Video")
    IN  IF ~Truthy(info) THEN Return(rr_default_metadata)
        ELSE IF media.t # "dict" THEN Raise("AttributeError")
        ELSE IF listed.t \in {"none", "int"} THEN Raise("TypeError")
        ELSE IF listed.t \in {"str", "dict"} /\ Truthy(listed) THEN Raise("AttributeError")
        ELSE IF \E i \in 1..Len(tracks) : tracks[i].t # "dict" THEN Raise("AttributeError")
        ELSE rr_metadata_of(
                 rr_duration(ofType("General")),
                 rr_source_from(tracks, 1, rr_default_metadata.source),
                 IF video = <<>>
                 THEN Return(<<rr_default_metadata.resolution, rr_default_metadata.codec>>)
                 ELSE rr_video_of(video[1].v, rr_default_metadata.resolution,
                                  rr_default_metadata.codec),
                 rr_audio_from(ofType("Audio"), 1, -1, "", {}),
                 ofType("Audio") # <<>>)

-----------------------------------------------------------------------------
(* Batch metadata and the filename builders *)

VIDEO_EXTS == {".mkv", ".mp4", ".avi", ".m2ts", ".ts"}

\* How many files of a batch are sampled: the [:3] of both scripts
SampleSize == 3

\* Path.suffix and Path.stem of a file name
PathSuffix(fname) ==
    LET dots == {i \in 1..Len(fname) : Ch(fname, i) = "."}
        last == CHOOSE i \in dots : \A j \in dots : j <= i
    IN  IF dots # {} /\ 1 < last /\ last < Len(fname)
        THEN SubSeq(fname, last, Len(fname))
        ELSE ""

PathStem(fname) == SubSeq(fname, 1, Len(fname) - Len(PathSuffix(fname)))

\* sorted(f for f in season_dir.iterdir() if f.suffix.lower() in VIDEO_EXTS)[:3]
\* with the files in another order than sorted()'s: the order of iterdir()
season_video_files_Unsorted(listing) ==
    LET supported == SelectSeq(listing, LAMBDA f : StrLower(PathSuffix(f)) \in VIDEO_EXTS)
    IN  SubSeq(supported, 1, IF Len(supported) < SampleSize THEN Len(supported) ELSE SampleSize)

\* sorted(f for f in listing.iterdir() if f.suffix.lower() in VIDEO_EXTS)[:3]
\* listing is the listing in the order iterdir() yields it
season_video_files(listing) ==
    LET supported == Sorted({listing[i] : i \in {j \in 1..Len(listing) :
                                 StrLower(PathSuffix(listing[j])) \in VIDEO_EXTS}})
    IN  SubSeq(supported, 1, IF Len(supported) < SampleSize THEN Len(supported) ELSE SampleSize)

\* The filename-based sample of detect_season_metadata, lines 532-542
filename_meta(stem) ==
    CHOOSE meta \in {[resolution |-> sr[2], source |-> sr[1], audio |-> detect_audio(stem),
                      codec |-> detect_codec(stem), remux |-> sr[3]] :
                         sr \in {detect_source_and_resolution(stem)}} : TRUE

\* build_dest_filename(series_slug, group, season, episode, title, season_meta)
build_dest_filename(series_slug, group, season, episode, title, season_meta) ==
    LET ep_title_slug == slugify_title(title)
        ep_width == IF episode >= 100 THEN 3 ELSE 2
        ep_tag == series_slug \o ".S" \o ZeroPad(season, 2) \o "E" \o ZeroPad(episode, ep_width)
        base == ep_tag \o "." \o ep_title_slug \o "." \o season_meta.resolution
                \o "." \o season_meta.source
                \o (IF season_meta.remux THEN ".Remux" ELSE "")
    IN  base \o "." \o season_meta.audio \o "." \o season_meta.codec \o "-" \o group \o ".mkv"

\* re.sub(r"\s*\d+bit$", "", codec)
strip_bit_depth(codec) ==
    LET n == Len(codec)
        digitsFrom == CHOOSE i \in 1..(n - 3) :
                          /\ \A k \in i..(n - 3) : Ch(codec, k) \in DigitSet
                          /\ (i = 1 \/ Ch(codec, i - 1) \notin DigitSet)
        kept == RStrip(SubSeq(codec, 1, digitsFrom - 1), SpaceSet)
    IN  IF n >= 4 /\ SubSeq(codec, n - 2, n) = "bit" /\ Ch(codec, n - 3) \in DigitSet
        THEN kept
        ELSE codec

\* build_btn_filename(series_slug, season, episode, episode_title, metadata,
\* group); metadata has every key the function reads
build_btn_filename(series_slug, season, episode, episode_title, metadata, group) ==
    LET ep_tag == series_slug \o ".S" \o ZeroPad(season, 2) \o "E" \o ZeroPad(episode, 2)
        title_slug == IF episode_title # "" THEN rr_slugify_title(episode_title) ELSE ""
        audio_btn == RemoveChar(metadata.audio, " ")
        codec_btn == strip_bit_depth(metadata.codec)
        base == ep_tag
                \o (IF title_slug # "" THEN "." \o title_slug ELSE "")
                \o "." \o metadata.resolution \o "." \o metadata.source
                \o (IF metadata.remux THEN ".Remux" ELSE "")
                \o "." \o audio_btn \o "." \o codec_btn
    IN  base \o "-" \o group \o ".mkv"

\* The metadata block of process_disc_interactive, lines 1949-1975, after its
\* calls of detect_metadata_from_file: metas[i] is the outcome for files[i]
disc_metadata_of(metas) ==
    LET failed == {i \in DOMAIN metas : Raised(metas[i])}
        all_languages == UNION {{metas[i].val.languages[k] :
                                    k \in 1..Len(metas[i].val.languages)} : i \in DOMAIN metas}
    IN  IF failed # {} THEN metas[CHOOSE i \in failed : \A j \in failed : i <= j]
        ELSE IF all_languages # {}
        THEN Return([metas[1].val EXCEPT !.languages = ordered_langs(all_languages)])
        ELSE Return(metas[1].val)

\* The metadata block of process_disc_interactive: probes[i] is what
\* run_mediainfo_json returns for files[i], files not empty.  The outcome is
\* Return(metadata) or the exception of the first failing sample.
disc_metadata(probes) ==
    disc_metadata_of([i \in 1..(IF Len(probes) >= SampleSize THEN SampleSize ELSE Len(probes))
                         |-> detect_metadata_from_file(probes[i])])

-----------------------------------------------------------------------------
(* process_seasons of hardlink_wizard.py *)

\* sorted(f for f in season_dir.iterdir() if f.suffix.lower() in VIDEO_EXTS),
\* line 844: every video file of the listing, in the order of sorted()
all_video_files(listing) ==
    Sorted({listing[i] : i \in {j \in 1..Len(listing) :
                StrLower(PathSuffix(listing[j])) \in VIDEO_EXTS}})

\* The name of the directory season_pack_dir returns
season_pack_dir(series_slug, season, group, season_meta) ==
    series_slug \o ".S" \o ZeroPad(season, 2) \o "." \o season_meta.resolution
        \o "." \o season_meta.source
        \o (IF season_meta.remux THEN ".Remux" ELSE "")
        \o "." \o season_meta.audio \o "." \o season_meta.codec \o "-" \o group

\* What ensure_hardlink can meet: the source is there or not, the
\* destination is there or not; a destination that is there has the inode of
\* the source or another, or stat() fails; os.link to a free destination
\* works or fails
LinkWorlds ==
    {[src_exists |-> FALSE, dst_exists |-> d, same_inode |-> FALSE, stat_fails |-> FALSE,
      link_fails |-> FALSE] : d \in BOOLEAN}
    \cup {[src_exists |-> TRUE, dst_exists |-> TRUE, same_inode |-> i, stat_fails |-> f,
           link_fails |-> FALSE] : <<i, f>> \in {<<TRUE, FALSE>>, <<FALSE, FALSE>>, <<FALSE, TRUE>>}}
    \cup {[src_exists |-> TRUE, dst_exists |-> FALSE, same_inode |-> FALSE, stat_fails |-> FALSE,
           link_fails |-> l] : l \in BOOLEAN}

\* ensure_hardlink with the destination looked at before the source
ensure_hardlink_DestinationFirst(world, dry) ==
    IF world.dst_exists
    THEN IF world.stat_fails \/ ~world.src_exists THEN "error"
         ELSE IF world.same_inode THEN "exists-same"
         ELSE "exists-different"
    ELSE IF ~world.src_exists THEN "missing-src"
    ELSE IF dry THEN "would-link"
    ELSE IF world.link_fails THEN "error"
    ELSE "linked"

\* The status ensure_hardlink returns, lines 647-684
ensure_hardlink(world, dry) ==
    IF ~world.src_exists THEN "missing-src"
    ELSE IF world.dst_exists
    THEN IF world.stat_fails THEN "error"
         ELSE IF world.same_inode THEN "exists-same"
         ELSE "exists-different"
    ELSE IF dry THEN "would-link"
    ELSE IF world.link_fails THEN "error"
    ELSE "linked"

\* ensure_hardlink calls os.link, line 671
calls_link(world, dry) == world.src_exists /\ ~world.dst_exists /\ ~dry

\* The episode tag of the log messages, lines 899-901, had it three digits
\* for every episode
episode_tag_ThreeDigits(file_season, ep_num) ==
    "S" \o ZeroPad(file_season, 2) \o "E" \o ZeroPad(ep_num, 3)

\* The episode tag of the log messages, lines 899-901
episode_tag(file_season, ep_num) ==
    "S" \o ZeroPad(file_season, 2) \o "E" \o ZeroPad(ep_num, IF ep_num >= 100 THEN 3 ELSE 2)

\* count_status with a destination that is another file left uncounted
count_status_ClashUncounted(c, status) ==
    CASE status = "linked"      -> [c EXCEPT !.total = @ + 1, !.linked = @ + 1]
      [] status = "exists-same" -> [c EXCEPT !.total = @ + 1, !.already = @ + 1]
      [] status = "would-link"  -> [c EXCEPT !.total = @ + 1, !.would_link = @ + 1]
      [] status = "exists-different" -> [c EXCEPT !.total = @ + 1]
      [] OTHER                  -> [c EXCEPT !.total = @ + 1, !.errors = @ + 1]

\* The counters after the status of a file, and the message passed to log()
count_status(c, status) ==
    CASE status = "linked"      -> [c EXCEPT !.total = @ + 1, !.linked = @ + 1]
      [] status = "exists-same" -> [c EXCEPT !.total = @ + 1, !.already = @ + 1]
      [] status = "would-link"  -> [c EXCEPT !.total = @ + 1, !.would_link = @ + 1]
      [] OTHER                  -> [c EXCEPT !.total = @ + 1, !.errors = @ + 1]

log_status(status, tag, dest_name) ==
    CASE status = "linked"      -> <<<<"[LINKED]   ", tag, " -> ", dest_name>>>>
      [] status = "exists-same" -> <<<<"[EXISTS]   ", tag, " -> ", dest_name>>>>
      [] status = "would-link"  -> <<<<"[DRY-RUN]  ", tag, " -> ", dest_name>>>>
      [] OTHER                  -> <<>>

-----------------------------------------------------------------------------
(* Episode parsing of hardlink_wizard.py.  EP_REGEX is compiled without     *)
(* flags: its letters match their own case only.  It is matched the way the *)
(* backtracking matcher of re does: the alternatives of every quantifier    *)
(* are tried in order (greedy: longest first, an optional group: taken      *)
(* first, lazy: shortest first) and the first way that lets the rest of the *)
(* pattern match decides the groups.                                        *)

\* The characters \s and str.strip() take as whitespace (of those, the ones
\* a stem of the model holds)
Whitespace == SpaceSet \cup {"\n"}

\* A tuple value
VTuple(q) == [t |-> "tuple", v |-> q]

\* The character of s at position p, the empty string outside of s
At(s, p) == IF 1 <= p /\ p <= Len(s) THEN Ch(s, p) ELSE ""

\* The numbers of P from the largest down
RECURSIVE Descending(_)
Descending(P) == IF P = {} THEN <<>> ELSE <<Max(P)>> \o Descending(P \ {Max(P)})

\* The concatenation of F(q[1]), F(q[2]), ...: the ways to go on, in the
\* order in which the matcher tries them
FlatMap(q, F(_)) ==
    LET acc[i \in 0..Len(q)] == IF i = 0 THEN <<>> ELSE acc[i - 1] \o F(q[i])
    IN  acc[Len(q)]

\* EP_REGEX.match(s, p): the empty sequence when there is no match at p,
\* otherwise one record of the groups season, ep and title
EP_REGEX(s, p) ==
    LET \* greedy repetition of a character class, longest first
        Greedy(atom, from) == Descending(AtomEnds(atom[1], s, from))
        \* \s*-\s*
        Separator(from) ==
            FlatMap(Greedy(Star(Whitespace), from),
                    LAMBDA dash : IF At(s, dash) = "-"
                                  THEN Greedy(Star(Whitespace), dash + 1) ELSE <<>>)
        \* (?:-E\d{2,3})?
        RangeSuffix(from) ==
            (IF At(s, from) = "-" /\ At(s, from + 1) = "E"
             THEN Greedy(Rep(DigitSet, 2, 3), from + 2) ELSE <<>>) \o <<from>>
        \* (?:-\d+)?
        AbsoluteRange(from) ==
            (IF At(s, from) = "-" THEN Greedy(Plus(DigitSet), from + 1) ELSE <<>>)
                \o <<from>>
        \* (?:\d+(?:-\d+)?\s*-\s*)?
        Absolute(from) ==
            FlatMap(Greedy(Plus(DigitSet), from),
                    LAMBDA d : FlatMap(AbsoluteRange(d), LAMBDA e : Separator(e)))
                \o <<from>>
        \* $ without re.MULTILINE: the end, or before a newline that ends s
        AtEnd(w) == w = Len(s) + 1 \/ (w = Len(s) /\ At(s, w) = "\n")
        \* \s*(?:\[|$) from e
        Stops(e) ==
            \E w \in AtomEnds(Star(Whitespace)[1], s, e) : At(s, w) = "[" \/ AtEnd(w)
        \* (?P<title>.+?)\s*(?:\[|$) from t: the ends of the title, shortest
        \* first; the dot takes every character but the newline
        TitleEnds(t) ==
            {e \in AtomEnds(StarNot({"\n"})[1], s, t) : e > t /\ Stops(e)}
        Groups(a, t) ==
            IF TitleEnds(t) = {} THEN <<>>
            ELSE <<[season |-> SubSeq(s, p + 1, p + 2),
                    ep     |-> SubSeq(s, p + 4, a - 1),
                    title  |-> SubSeq(s, t, (CHOOSE e \in TitleEnds(t) :
                                              \A f \in TitleEnds(t) : e <= f) - 1)]>>
        found ==
            FlatMap(Greedy(Rep(DigitSet, 2, 3), p + 4),
                    LAMBDA a : FlatMap(FlatMap(FlatMap(RangeSuffix(a),
                                                       LAMBDA b : Separator(b)),
                                               LAMBDA c : Absolute(c)),
                                       LAMBDA t : Groups(a, t)))
    IN  IF At(s, p) = "S" /\ At(s, p + 1) \in DigitSet /\ At(s, p + 2) \in DigitSet
           /\ At(s, p + 3) = "E" /\ found # <<>>
        THEN <<found[1]>> ELSE <<>>

\* parse_episode_info, had it returned a tuple for a stem without episode
\* pattern too
parse_episode_info_NeverNone(stem) ==
    LET starts == {p \in 1..Len(stem) : EP_REGEX(stem, p) # <<>>}
        m == EP_REGEX(stem, CHOOSE p \in starts : \A q \in starts : p <= q)[1]
    IN  IF starts = {} THEN VTuple(<<0, 0, stem>>)
        ELSE VTuple(<<IntOf(m.season), IntOf(m.ep), Strip(m.title, Whitespace)>>)

\* parse_episode_info(name): None, or the tuple (season, ep, title)
parse_episode_info(stem) ==
    LET starts == {p \in 1..Len(stem) : EP_REGEX(stem, p) # <<>>}
        m == EP_REGEX(stem, CHOOSE p \in starts : \A q \in starts : p <= q)[1]
    IN  IF starts = {} THEN VNone
        ELSE VTuple(<<IntOf(m.season), IntOf(m.ep), Strip(m.title, Whitespace)>>)

-----------------------------------------------------------------------------
(* Inputs *)

RECURSIVE StringsOver(_, _)
StringsOver(cs, n) ==
    IF n = 0 THEN {""}
    ELSE LET shorter == StringsOver(cs, n - 1)
         IN  shorter \cup {c \o s : c \in cs, s \in {t \in shorter : Len(t) = n - 1}}

TitleChars == {"a", "Z", "7", APOS, LSQUO, RSQUO, " ", "."}
FolderChars == {"a", "7", " ", "(", ")", "{", "}"}

Titles == StringsOver(TitleChars, MaxNameLen)
Folders == StringsOver(FolderChars, MaxNameLen)

RECURSIVE SeqsOver(_, _)
SeqsOver(S, n) ==
    IF n = 0 THEN {<<>>}
    ELSE LET shorter == SeqsOver(S, n - 1)
         IN  shorter \cup {<<x>> \o q : x \in S, q \in {t \in shorter : Len(t) = n - 1}}

RECURSIVE Join(_)
Join(q) == IF q = <<>> THEN "" ELSE Head(q) \o Join(Tail(q))

\* Tokens of the audio part of a stem
AudioTokens ==
    {"DTS", "TrueHD", "DDP", "AC3", " Atmos", " 5.1", " 7.1", "Dolby Digital", " Plus"}

\* Tokens of the quality part of a stem: openers of a Sonarr quality block
\* (three with a source and a resolution of the vocabulary, one without),
\* what may follow the resolution, the closing bracket, and loose keywords
BlockOpeners == {"[Bluray-1080p", "[WEBDL-720p", "[hdtv-2160P"}
RemuxTokens == {" Remux"}
QualityTokens ==
    BlockOpeners \cup RemuxTokens \cup {"[WEBRip-480p", " Proper", "]", "web", "remux"}

AudioStems == SeqsOver(AudioTokens, MaxParts)
QualityStems == SeqsOver(QualityTokens, MaxParts)

-----------------------------------------------------------------------------
(* Specification of the slug functions: the input is drawn at Init, every   *)
(* action applies one function to it, Again applies it to its own result.   *)

InitSlug ==
    /\ name \in Titles \cup Folders
    /\ parts = <<>>
    /\ op = "none"
    /\ ret = ""
    /\ ret2 = ""
    /\ NoBatch
    /\ NoRun
    /\ NoTools
    /\ NoWizard
    /\ events = <<>>
    /\ NoOther

SlugifyTitle ==
    /\ op = "none"
    /\ op' = "slugify_title"
    /\ ret' = slugify_title(name)
    /\ ret2' = ""
    /\ UNCHANGED <<name, parts, batchVars, runVars, toolVars, wizardVars, events, otherVars>>

RrSlugifyTitle ==
    /\ op = "none"
    /\ op' = "rr_slugify_title"
    /\ ret' = rr_slugify_title(name)
    /\ ret2' = ""
    /\ UNCHANGED <<name, parts, batchVars, runVars, toolVars, wizardVars, events, otherVars>>

GuessSeriesSlug ==
    /\ op = "none"
    /\ op' = "guess_series_slug"
    /\ ret' = guess_series_slug(name)
    /\ ret2' = ""
    /\ UNCHANGED <<name, parts, batchVars, runVars, toolVars, wizardVars, events, otherVars>>

SlugifyTitleAgain ==
    /\ op = "slugify_title"
    /\ op' = "slugify_title_twice"
    /\ ret2' = slugify_title(ret)
    /\ UNCHANGED <<name, parts, ret, batchVars, runVars, toolVars, wizardVars, events, otherVars>>

RrSlugifyTitleAgain ==
    /\ op = "rr_slugify_title"
    /\ op' = "rr_slugify_title_twice"
    /\ ret2' = rr_slugify_title(ret)
    /\ UNCHANGED <<name, parts, ret, batchVars, runVars, toolVars, wizardVars, events, otherVars>>

GuessSeriesSlugAgain ==
    /\ op = "guess_series_slug"
    /\ op' = "guess_series_slug_twice"
    /\ ret2' = guess_series_slug(ret)
    /\ UNCHANGED <<name, parts, ret, batchVars, runVars, toolVars, wizardVars, events, otherVars>>

NextSlug ==
    \/ SlugifyTitle
    \/ RrSlugifyTitle
    \/ GuessSeriesSlug
    \/ SlugifyTitleAgain
    \/ RrSlugifyTitleAgain
    \/ GuessSeriesSlugAgain

SpecSlug == InitSlug /\ [][NextSlug]_vars

-----------------------------------------------------------------------------
(* Specification of the filename extractors: the stem is drawn at Init,     *)
(* every action applies one extractor to it.                                *)

InitExtract ==
    /\ parts \in AudioStems \cup QualityStems
    /\ name = Join(parts)
    /\ op = "none"
    /\ ret = ""
    /\ ret2 = ""
    /\ NoBatch
    /\ NoRun
    /\ NoTools
    /\ NoWizard
    /\ events = <<>>
    /\ NoOther

DetectResolution ==
    /\ op = "none"
    /\ op' = "detect_resolution"
    /\ ret' = detect_resolution(name)
    /\ UNCHANGED <<name, parts, ret2, batchVars, runVars, toolVars, wizardVars, events, otherVars>>

DetectSource ==
    /\ op = "none"
    /\ op' = "detect_source"
    /\ ret' = detect_source(name)
    /\ UNCHANGED <<name, parts, ret2, batchVars, runVars, toolVars, wizardVars, events, otherVars>>

DetectRemux ==
    /\ op = "none"
    /\ op' = "detect_remux"
    /\ ret' = detect_remux(name)
    /\ UNCHANGED <<name, parts, ret2, batchVars, runVars, toolVars, wizardVars, events, otherVars>>

DetectAudio ==
    /\ op = "none"
    /\ op' = "detect_audio"
    /\ ret' = detect_audio(name)
    /\ UNCHANGED <<name, parts, ret2, batchVars, runVars, toolVars, wizardVars, events, otherVars>>

DetectCodec ==
    /\ op = "none"
    /\ op' = "detect_codec"
    /\ ret' = detect_codec(name)
    /\ UNCHANGED <<name, parts, ret2, batchVars, runVars, toolVars, wizardVars, events, otherVars>>

DetectSourceAndResolution ==
    /\ op = "none"
    /\ op' = "detect_source_and_resolution"
    /\ ret' = detect_source_and_resolution(name)
    /\ UNCHANGED <<name, parts, ret2, batchVars, runVars, toolVars, wizardVars, events, otherVars>>

NextExtract ==
    \/ DetectResolution
    \/ DetectSource
    \/ DetectRemux
    \/ DetectAudio
    \/ DetectCodec
    \/ DetectSourceAndResolution

SpecExtract == InitExtract /\ [][NextExtract]_vars

\* A key of a probe dict that may be absent or hold one of the values
Field(k, vals) == {<<>>} \cup {k :> v : v \in vals}

Track(type, fields) == VDict(("@type" :> VStr(type)) @@ fields)

Info(tracks) == VDict("media" :> VDict("track" :> VList(tracks)))

\* Video tracks: Height absent, numeric, not numeric, a JSON number; Format
\* absent, in codec_map, not in it; extra absent, not a mapping, a mapping
VideoTracks ==
    {Track("Video", h @@ f @@ x) :
        h \in Field("Height", {VStr("1080"), VStr("abc"), VInt(720)}),
        f \in Field("Format", {VStr("AVC"), VStr("MPEG Video")}),
        x \in Field("extra", {VStr("x"), VDict("OriginalSourceMedium" :> VStr("Blu-ray"))})}

AudioTracks ==
    {Track("Audio", f @@ c @@ n) :
        f \in Field("Format", {VStr("AC-3")}),
        c \in Field("Format_Commercial_IfAny", {VStr("Dolby TrueHD with Dolby Atmos")}),
        n \in Field("Channels", {VStr("6"), VStr("abc")})}

\* Audio tracks that differ in the channel count only, Channels being the
\* decimal string mediainfo prints
ChannelCounts == (0 - 1)..MaxChannels

ChannelTrack(c) ==
    Track("Audio", ("Format" :> VStr("AC-3")) @@ ("Channels" :> VStr(IntToStr(c))))

ChannelTracks == {ChannelTrack(c) : c \in ChannelCounts}

\* The audio tracks of a file with several: a TrueHD, an AC3, two DTS and an
\* AAC track in Japanese, English, French, English and German
LanguageTrack(format, commercial, channels, language) ==
    Track("Audio", ("Format" :> VStr(format)) @@ ("Format_Commercial_IfAny" :> VStr(commercial))
                   @@ ("Channels" :> VStr(channels)) @@ ("Language" :> VStr(language)))

LanguageTracks ==
    {LanguageTrack("MLP FBA", "Dolby TrueHD", "8", "ja"),
     LanguageTrack("AC-3", "Dolby Digital", "6", "en"),
     LanguageTrack("DTS", "", "2", "fr"),
     LanguageTrack("DTS", "", "6", "en"),
     LanguageTrack("AAC", "", "2", "de")}

\* Two to MaxTracks of them, in every order
SeveralTracks ==
    {q \in SeqsOver(LanguageTracks, MaxTracks) :
        Len(q) >= 2 /\ \A i, j \in 1..Len(q) : i # j => q[i] # q[j]}

PlainVideo == Track("Video", ("Height" :> VStr("1080")) @@ ("Format" :> VStr("AVC")))

\* Probe outputs: none (the probe failed), a non-mapping media, no tracks,
\* an empty track list, one video track, a video and an audio track
Probes ==
    {VNone, VDict("media" :> VStr("x")), VDict("media" :> VDict(<<>>)), Info(<<>>)}
    \cup {Info(<<v>>) : v \in VideoTracks}
    \cup {Info(<<PlainVideo, a>>) : a \in AudioTracks}
    \cup {Info(<<PlainVideo, a>>) : a \in ChannelTracks}
    \cup {Info(<<PlainVideo>> \o q) : q \in SeveralTracks}

ProbeStems == {"Show S01E01 [WEBDL-720p]", "x remux"}

\* The audio tracks of a probe output
AudioTracksOf(info) ==
    IF info.t = "dict" /\ Get(info.v, "media", VNone).t = "dict"
    THEN SelectSeq(Get(info.v["media"].v, "track", VList(<<>>)).v,
                   LAMBDA tr : Get(tr.v, "@type", VNone) = VStr("Audio"))
    ELSE <<>>

-----------------------------------------------------------------------------
(* Specification of the probe adapters: the probe output, the stem and the  *)
(* availability of mediainfo are drawn at Init, every action applies one    *)
(* adapter function.                                                        *)

InitProbe ==
    /\ name \in ProbeStems
    /\ parts = <<>>
    /\ op = "none"
    /\ ret = ""
    /\ ret2 = ""
    /\ season_dir = <<>>
    /\ use_mi \in BOOLEAN
    /\ infos \in {<<p>> : p \in Probes}
    /\ video_files = <<>>
    /\ examined = <<>>
    /\ metadata_samples = <<>>
    /\ warnings = <<>>
    /\ NoRun
    /\ NoTools
    /\ NoWizard
    /\ events = <<>>
    /\ NoOther

DetectMetadataFromMediainfo ==
    /\ op = "none"
    /\ op' = "detect_metadata_from_mediainfo"
    /\ ret' = detect_metadata_from_mediainfo(name, use_mi, infos[1])
    /\ UNCHANGED <<name, parts, ret2, batchVars, runVars, toolVars, wizardVars, events, otherVars>>

DetectMetadataFromFile ==
    /\ op = "none"
    /\ op' = "detect_metadata_from_file"
    /\ ret' = detect_metadata_from_file(infos[1])
    /\ UNCHANGED <<name, parts, ret2, batchVars, runVars, toolVars, wizardVars, events, otherVars>>

\* parse_audio_track applied to audio track number ret2 of the probe
ParseAudioTrack ==
    /\ op = "none"
    /\ \E i \in 1..Len(AudioTracksOf(infos[1])) :
          /\ ret' = parse_audio_track(AudioTracksOf(infos[1])[i].v)
          /\ ret2' = i
    /\ op' = "parse_audio_track"
    /\ UNCHANGED <<name, parts, batchVars, runVars, toolVars, wizardVars, events, otherVars>>

NextProbe ==
    \/ DetectMetadataFromMediainfo
    \/ DetectMetadataFromFile
    \/ ParseAudioTrack

SpecProbe == InitProbe /\ [][NextProbe]_vars

-----------------------------------------------------------------------------
(* Specification of batch processing.  A season directory (hardlink_wizard) *)
(* or the probed files of a disc (rip_renamer) are drawn at Init; the       *)
(* metadata of the batch is resolved from its samples and an episode        *)
(* filename is built from it.                                               *)

\* File names of a season directory: four with a supported extension and one
\* without; "B.MKV" sorts before "a.mkv"
FileNames == {"a.mkv", "B.MKV", "c.txt", "d [WEBDL-720p].mp4", "e.ts"}

\* Directory listings: the names of a directory are distinct
Listings ==
    {q \in SeqsOver(FileNames, MaxFiles) : \A i, j \in 1..Len(q) : q[i] = q[j] => i = j}

\* What mediainfo answers for a file of a season: nothing, a plain 1080p AVC
\* video, a 720p video of a format outside codec_map with an audio track, and
\* a video whose Height is not a number
SeasonProbes ==
    {VNone,
     Info(<<PlainVideo>>),
     Info(<<Track("Video", ("Height" :> VInt(720)) @@ ("Format" :> VStr("MPEG Video"))),
            Track("Audio", ("Format" :> VStr("AC-3")) @@ ("Channels" :> VStr("6")))>>),
     Info(<<Track("Video", "Height" :> VStr("abc"))>>)}

\* What mediainfo answers for a file of a disc: nothing, a Japanese track, an
\* English and a French track, a video whose Height is not a number, and a
\* German, an English, a Japanese and a second English track
DiscProbes ==
    {VNone,
     Info(<<PlainVideo, Track("Audio", ("Format" :> VStr("FLAC")) @@ ("Language" :> VStr("ja")))>>),
     Info(<<Track("Audio", ("Format" :> VStr("AC-3")) @@ ("Language" :> VStr("fr"))),
            Track("Audio", ("Format" :> VStr("DTS")) @@ ("Language" :> VStr("en")))>>),
     Info(<<Track("Video", "Height" :> VStr("abc"))>>),
     Info(<<LanguageTrack("AAC", "", "2", "de"), LanguageTrack("AC-3", "Dolby Digital", "6", "en"),
            LanguageTrack("MLP FBA", "Dolby TrueHD", "8", "ja"), LanguageTrack("DTS", "", "6", "en")>>)}

\* The series folder or title, the release group, the season, and the
\* episode numbers and titles a filename is built for
SeriesNames == {"The Show"}
Group == "GRP"
BuildSeasons == {1}
BuildEpisodes == {1, 100}
BuildTitles == {"", "Pilot"}

InitBatch ==
    /\ name \in SeriesNames
    /\ parts = <<>>
    /\ op = "none"
    /\ ret = ""
    /\ ret2 = ""
    /\ video_files = <<>>
    /\ examined = <<>>
    /\ metadata_samples = <<>>
    /\ warnings = <<>>
    /\ \/ /\ season_dir \in Listings
          /\ use_mi \in BOOLEAN
          /\ infos = <<>>
       \/ /\ season_dir = <<>>
          /\ use_mi = FALSE
          /\ infos \in SeqsOver(DiscProbes, MaxFiles) \ {<<>>}
    /\ NoRun
    /\ NoTools
    /\ NoWizard
    /\ events = <<>>
    /\ NoOther

\* detect_season_metadata(season_dir) up to the loop, lines 513-521
SeasonStart ==
    /\ op = "none"
    /\ infos = <<>>
    /\ op' = "detect_season_metadata:for"
    /\ video_files' = season_video_files(season_dir)
    /\ metadata_samples' = <<>>
    /\ UNCHANGED <<name, parts, ret, ret2, season_dir, use_mi, infos, examined, warnings, runVars, toolVars, wizardVars, events, otherVars>>

\* One iteration of the loop, lines 523-542: with mediainfo the file is
\* probed and the probe answers anything; an exception of the adapter leaves
\* detect_season_metadata
SeasonSample ==
    /\ op = "detect_season_metadata:for"
    /\ Len(examined) < Len(video_files)
    /\ LET src_file == video_files[Len(examined) + 1]
           stem == PathStem(src_file)
       IN  \E info \in IF use_mi THEN SeasonProbes ELSE {VNone} :
              \E mi_meta \in {detect_metadata_from_mediainfo(stem, use_mi, info)} :
                  /\ examined' = Append(examined, src_file)
                  /\ infos' = IF use_mi THEN Append(infos, info) ELSE infos
                  /\ IF Raised(mi_meta)
                     THEN /\ op' = "detect_season_metadata"
                          /\ ret' = mi_meta
                          /\ UNCHANGED metadata_samples
                     ELSE /\ metadata_samples' =
                                Append(metadata_samples,
                                       IF mi_meta.val # VNone THEN mi_meta.val
                                       ELSE filename_meta(stem))
                          /\ UNCHANGED <<op, ret>>
    /\ UNCHANGED <<name, parts, ret2, season_dir, use_mi, video_files, warnings, runVars, toolVars, wizardVars, events, otherVars>>

\* After the loop, lines 544-555
SeasonReturn ==
    /\ op = "detect_season_metadata:for"
    /\ Len(examined) = Len(video_files)
    /\ op' = "detect_season_metadata"
    /\ IF metadata_samples = <<>>
       THEN /\ ret' = Return(FALLBACK_META)
            /\ UNCHANGED warnings
       ELSE /\ ret' = Return(metadata_samples[1])
            /\ warnings' =
                  IF \E i \in 2..Len(metadata_samples) : metadata_samples[i] # metadata_samples[1]
                  THEN Append(warnings, "Inconsistent metadata detected")
                  ELSE warnings
    /\ UNCHANGED <<name, parts, ret2, season_dir, use_mi, infos, video_files, examined,
                   metadata_samples, runVars, toolVars, wizardVars, events, otherVars>>

\* build_dest_filename for an episode of a season that has video files, with
\* the metadata detect_season_metadata returned
BuildDestFilename ==
    /\ op = "detect_season_metadata"
    /\ ~Raised(ret)
    /\ examined # <<>>
    /\ \E season \in BuildSeasons, episode \in BuildEpisodes, title \in BuildTitles :
          /\ parts' = <<title>>
          /\ ret2' = build_dest_filename(guess_series_slug(name), Group, season, episode,
                                         title, ret.val)
    /\ op' = "build_dest_filename"
    /\ UNCHANGED <<name, ret, batchVars, runVars, toolVars, wizardVars, events, otherVars>>

\* The metadata block of process_disc_interactive, lines 1949-1975
DiscSampleMetadata ==
    /\ op = "none"
    /\ infos # <<>>
    /\ op' = "process_disc_interactive:metadata"
    /\ ret' = disc_metadata(infos)
    /\ UNCHANGED <<name, parts, ret2, batchVars, runVars, toolVars, wizardVars, events, otherVars>>

\* build_btn_filename for an episode of the disc, with that metadata
BuildBtnFilename ==
    /\ op = "process_disc_interactive:metadata"
    /\ ~Raised(ret)
    /\ \E season \in BuildSeasons, episode \in BuildEpisodes, title \in BuildTitles :
          /\ parts' = <<title>>
          /\ ret2' = build_btn_filename(rr_slugify_title(name), season, episode, title,
                                        ret.val, Group)
    /\ op' = "build_btn_filename"
    /\ UNCHANGED <<name, ret, batchVars, runVars, toolVars, wizardVars, events, otherVars>>

NextBatch ==
    \/ SeasonStart
    \/ SeasonSample
    \/ SeasonReturn
    \/ BuildDestFilename
    \/ DiscSampleMetadata
    \/ BuildBtnFilename

SpecBatch == InitBatch /\ [][NextBatch]_vars

-----------------------------------------------------------------------------
(* Specification of the episode parser: the stem is drawn at Init, put      *)
(* together from a series prefix, an episode tag, a range suffix, the       *)
(* separator, an absolute-number segment, a title and a tag block, each of  *)
(* the last five possibly absent.                                           *)

StemPrefixes == {"", "Show (1992) - "}
\* Episode tags, the last two of which EP_REGEX does not take
EpisodeTags == {"S01E01", "S01E99", "S02E100", "1x01", "s01e01"}
RangeSuffixes == {"", "-E03", "-E101"}
AbsoluteSegments == {"", "001 - ", "001-003 - "}
EpisodeTitles == {"", "Pilot", "100 Years", "50-50"}
TagBlocks == {"", " [Bluray-1080p]", "[x]"}

EpisodeStems ==
    {<<prefix, tag, range, " - ", absolute, title, block>> :
        prefix \in StemPrefixes, tag \in EpisodeTags, range \in RangeSuffixes,
        absolute \in AbsoluteSegments, title \in EpisodeTitles, block \in TagBlocks}

InitEpisode ==
    /\ parts \in EpisodeStems
    /\ name = Join(parts)
    /\ op = "none"
    /\ ret = VNone
    /\ ret2 = ""
    /\ NoBatch
    /\ NoRun
    /\ NoTools
    /\ NoWizard
    /\ events = <<>>
    /\ NoOther

ParseEpisodeInfo ==
    /\ op = "none"
    /\ op' = "parse_episode_info"
    /\ ret' = parse_episode_info(name)
    /\ UNCHANGED <<name, parts, ret2, batchVars, runVars, toolVars, wizardVars, events, otherVars>>

NextEpisode == ParseEpisodeInfo

SpecEpisode == InitEpisode /\ [][NextEpisode]_vars

-----------------------------------------------------------------------------
(* Specification of process_seasons for one season directory: the listing,  *)
(* the season of the directory, dry_run and the availability of mediainfo   *)
(* are drawn at Init, the counters are those of lines 829-834.  What the    *)
(* file system answers is chosen at each call.  error() prints and writes   *)
(* to the log file only; its messages are not kept.                         *)

\* File names of a season: one without episode pattern that sorts first,
\* episodes 1, 99 and 100-101, and a file that is no video
SeasonFileNames ==
    {"Extras.mkv", "S01E01 - Pilot.mkv", "S01E99 - 099 - x [WEBDL-720p].mkv",
     "S01E100-E101 - 100-101 - y.mkv", "cover.jpg"}

\* What iterdir() yields: up to MaxSeasonFiles of the names, in ascending or
\* in descending order
SeasonListings ==
    {q \in SeqsOver(SeasonFileNames, MaxSeasonFiles) :
        \/ \A i \in 1..(Len(q) - 1) : StrLess(q[i], q[i + 1])
        \/ \A i \in 1..(Len(q) - 1) : StrLess(q[i + 1], q[i])}

\* parse_episode_info of the stem of each of these files
ParsedStems == [f \in SeasonFileNames |-> parse_episode_info(PathStem(f))]

SeriesSlugs == {"The.Show"}
SeasonNumbers == {1, 2}

\* What detect_season_metadata(season_dir) gives for a season with video
\* files: the sample of the first file's name, and with mediainfo also a
\* probed sample or the exception of a probe it cannot convert
SeasonMetaOutcomes(first, mi) ==
    {Return(filename_meta(PathStem(first)))}
    \cup (IF mi THEN {Return([resolution |-> "720p", source |-> "BluRay", audio |-> "DD5.1",
                              codec |-> "H.264", remux |-> FALSE]),
                      Raise("ValueError")}
          ELSE {})

InitSeasons ==
    /\ name \in SeriesSlugs
    /\ parts = <<>>
    /\ op = "none"
    /\ ret = VNone
    /\ ret2 = ""
    /\ season_dir \in SeasonListings
    /\ use_mi \in BOOLEAN
    /\ infos = <<>>
    /\ video_files = <<>>
    /\ examined = <<>>
    /\ metadata_samples = <<>>
    /\ warnings = <<>>
    /\ season_num \in SeasonNumbers
    /\ dry_run \in BOOLEAN
    /\ season_metadata = <<>>
    /\ files_done = 0
    /\ counts = [total |-> 0, linked |-> 0, already |-> 0, skipped |-> 0, errors |-> 0,
                 would_link |-> 0]
    /\ fs_calls = <<>>
    /\ link_calls = <<>>
    /\ logs = <<>>
    /\ NoTools
    /\ NoWizard
    /\ events = <<>>
    /\ NoOther

\* The season loop up to the file loop, lines 841-850
ProcessSeasonStart ==
    /\ op = "none"
    /\ logs' = Append(logs, <<"--- Processing (Season ", ZeroPad(season_num, 2), ") ---">>)
    /\ video_files' = all_video_files(season_dir)
    /\ IF video_files' = <<>>
       THEN /\ warnings' = Append(warnings, "No video files found, skipping this season.")
            /\ op' = "process_seasons:summary"
            /\ UNCHANGED <<ret, season_metadata>>
       ELSE \E outcome \in SeasonMetaOutcomes(video_files'[1], use_mi) :
               /\ \E inconsistent \in {FALSE, Len(video_files') >= 2 /\ ~Raised(outcome)} :
                     warnings' = IF inconsistent
                                 THEN Append(warnings, "Inconsistent metadata detected")
                                 ELSE warnings
               /\ IF Raised(outcome)
                  THEN /\ op' = "process_seasons"
                       /\ ret' = outcome
                       /\ UNCHANGED season_metadata
                  ELSE /\ op' = "process_seasons:for"
                       /\ season_metadata' = outcome.val
                       /\ UNCHANGED ret
    /\ UNCHANGED <<name, parts, ret2, season_dir, use_mi, infos, examined, metadata_samples,
                   season_num, dry_run, files_done, counts, fs_calls, link_calls, toolVars,
                   wizardVars, events, otherVars>>

\* One iteration of the file loop, lines 852-931
ProcessFile ==
    /\ op = "process_seasons:for"
    /\ files_done < Len(video_files)
    /\ files_done' = files_done + 1
    /\ \E parsed \in {ParsedStems[video_files[files_done + 1]]} :
          IF parsed = VNone
          THEN /\ warnings' = Append(warnings, "Skipping (unparsed) " \o video_files[files_done + 1])
               /\ counts' = [counts EXCEPT !.skipped = @ + 1]
               /\ UNCHANGED <<fs_calls, link_calls, logs>>
          ELSE \E mkdir_fails \in {FALSE, ~dry_run}, world \in LinkWorlds :
                  LET file_season == parsed.v[1]
                      ep_num == parsed.v[2]
                      mismatch == IF file_season # season_num
                                  THEN <<"Season mismatch for " \o video_files[files_done + 1]>>
                                  ELSE <<>>
                      dest_season_dir == season_pack_dir(name, file_season, Group, season_metadata)
                      mkdir == IF dry_run THEN <<>> ELSE <<<<"mkdir", dest_season_dir>>>>
                      dest_name == build_dest_filename(name, Group, file_season, ep_num,
                                                       parsed.v[3], season_metadata)
                      status == ensure_hardlink(world, dry_run)
                      link == IF calls_link(world, dry_run)
                              THEN <<<<"link", video_files[files_done + 1],
                                       dest_season_dir \o "/" \o dest_name>>>>
                              ELSE <<>>
                  IN  IF mkdir_fails
                      THEN /\ counts' = [counts EXCEPT !.errors = @ + 1]
                           /\ fs_calls' = fs_calls \o mkdir
                           /\ UNCHANGED link_calls
                           /\ warnings' = warnings \o mismatch
                           /\ UNCHANGED logs
                      ELSE /\ counts' = count_status(counts, status)
                           /\ fs_calls' = fs_calls \o mkdir \o link
                           /\ link_calls' = Append(link_calls, <<world, status>>)
                           /\ logs' = logs \o log_status(status, episode_tag(file_season, ep_num),
                                                         dest_name)
                           /\ warnings' = warnings \o mismatch
                                \o (IF status = "exists-different"
                                    THEN <<"[CLASH]    Dest exists with different inode">>
                                    ELSE <<>>)
    /\ UNCHANGED <<name, parts, op, ret, ret2, season_dir, use_mi, infos, video_files, examined,
                   metadata_samples, season_num, dry_run, season_metadata, toolVars, wizardVars, events, otherVars>>

\* After the loops, lines 933-943
ProcessSummary ==
    /\ \/ op = "process_seasons:summary"
       \/ op = "process_seasons:for" /\ files_done = Len(video_files)
    /\ op' = "process_seasons"
    /\ ret' = Return(VNone)
    /\ logs' = Append(logs, <<"Skipped (unparsed):    ", IntToStr(counts.skipped)>>)
    /\ UNCHANGED <<name, parts, ret2, batchVars, season_num, dry_run, season_metadata,
                   files_done, counts, fs_calls, link_calls, toolVars, wizardVars, events, otherVars>>

NextSeasons ==
    \/ ProcessSeasonStart
    \/ ProcessFile
    \/ ProcessSummary

SpecSeasons == InitSeasons /\ [][NextSeasons]_vars

-----------------------------------------------------------------------------
(***************************************************************************)
(* The MediaInfo cache of rip_renamer.py                                   *)
(***************************************************************************)

\* The command line both probes give to subprocess.run, lines 273-278 and
\* 302-307
mediainfo_command(file_path) == <<"mediainfo", "--Output=JSON", file_path>>

\* What becomes of one subprocess.run of mediainfo, lines 272-285 and
\* 301-311: the parsed output when the tool returned 0 and printed JSON
\* text, None when it printed nothing or failed, or when subprocess.run or
\* json.loads raised one of the three exceptions caught.  (stdout is the
\* text printed: a str that is no JSON text, or the value of the JSON text.)
scan_file(run) ==
    IF run.raises \in {"TimeoutExpired", "FileNotFoundError"} THEN VNone
    ELSE IF run.returncode = 0 /\ ~(run.stdout.t = "str" /\ Strip(run.stdout.v, Whitespace) = "")
         THEN IF run.stdout.t = "str" THEN VNone        \* JSONDecodeError
              ELSE run.stdout
         ELSE VNone

\* run_mediainfo_json with a failed probe left out of the cache
run_mediainfo_json_FailureNotCached(file_path, cache, run) ==
    IF file_path \in DOMAIN cache
    THEN [ret |-> cache[file_path], cache |-> cache, calls |-> <<>>]
    ELSE [ret |-> scan_file(run),
          cache |-> IF scan_file(run) = VNone THEN cache
                    ELSE (file_path :> scan_file(run)) @@ cache,
          calls |-> <<mediainfo_command(file_path)>>]

\* run_mediainfo_json, lines 267-286: what it returns, the cache it leaves
\* and the commands it ran, run being what subprocess.run does if called
run_mediainfo_json(file_path, cache, run) ==
    IF file_path \in DOMAIN cache
    THEN [ret |-> cache[file_path], cache |-> cache, calls |-> <<>>]
    ELSE [ret |-> scan_file(run),
          cache |-> (file_path :> scan_file(run)) @@ cache,
          calls |-> <<mediainfo_command(file_path)>>]

\* prewarm_mediainfo_cache, lines 289-319: the files not in the cache are
\* scanned, one subprocess.run each (runs[f] is what it does for f), and the
\* results stored as the scans complete, in the order done
prewarm_mediainfo_cache(files, cache, runs, done) ==
    LET uncached == SelectSeq(files, LAMBDA f : f \notin DOMAIN cache)
    IN  [cache |-> [f \in DOMAIN cache \cup {uncached[i] : i \in 1..Len(uncached)} |->
                        IF f \in DOMAIN cache THEN cache[f] ELSE scan_file(runs[f])],
         calls |-> [i \in 1..Len(uncached) |-> mediainfo_command(uncached[done[i]])]]

\* A float that is a ratio of two integers
VFloat(num, den) == [t |-> "float", num |-> num, den |-> den]

\* get_file_duration, lines 843-858, for the output of run_mediainfo_json:
\* float(duration_str) / 60 for a whole number of seconds
get_file_duration(info) ==
    LET media  == Get(info.v, "media", VDict(<<>>))
        listed == Get(media.v, "track", VList(<<>>))
        tracks == IF listed.t = "list" THEN listed.v ELSE <<>>
        general == SelectSeq(tracks, LAMBDA tr : Get(tr.v, "@type", VNone) = VStr("General"))
        duration_str == IF general = <<>> THEN VNone
                        ELSE Get(general[1].v, "Duration", VNone)
    IN  IF ~Truthy(info) THEN Return(VNone)
        ELSE IF media.t # "dict" THEN Raise("AttributeError")
        ELSE IF listed.t \in {"none", "int"} THEN Raise("TypeError")
        ELSE IF listed.t \in {"str", "dict"} /\ Truthy(listed) THEN Raise("AttributeError")
        ELSE IF \E i \in 1..Len(tracks) : tracks[i].t # "dict" THEN Raise("AttributeError")
        ELSE IF ~Truthy(duration_str) THEN Return(VNone)
        ELSE IF duration_str.t = "int" THEN Return(VFloat(duration_str.v, 60))
        ELSE IF duration_str.t = "str" /\ IsIntLiteral(duration_str.v)
        THEN Return(VFloat(IntOf(duration_str.v), 60))
        ELSE Return(VNone)             \* except (ValueError, TypeError)

\* The files of two discs, as discover_disc_folders lists them
MediaPaths == {"BD1/00001.mkv", "BD2/00001.mkv"}

\* The lists of files prewarm_mediainfo_cache is given: files of disc
\* folders, each once
MediaLists ==
    {q \in SeqsOver(MediaPaths, Cardinality(MediaPaths)) :
        \A i, j \in 1..Len(q) : i # j => q[i] # q[j]}

\* The outputs mediainfo prints for a file: a General, a video and an audio
\* track, and a media that is no mapping
GoodProbe ==
    Info(<<Track("General", "Duration" :> VStr("1440")), PlainVideo, ChannelTrack(6)>>)

OddProbe == VDict("media" :> VStr("x"))

\* What subprocess.run does: it raises, or the tool returns a code and has
\* printed a text
MediainfoRuns ==
    {[raises |-> e, returncode |-> 0, stdout |-> VStr("")] :
        e \in {"TimeoutExpired", "FileNotFoundError"}}
    \cup {[raises |-> "", returncode |-> 1, stdout |-> GoodProbe]}
    \cup {[raises |-> "", returncode |-> 0, stdout |-> out] :
            out \in {VStr(" \n"), VStr("{"), GoodProbe, OddProbe}}

\* The orders in which n scans complete
CompletionOrders(n) ==
    {q \in [1..n -> 1..n] : \A i, j \in 1..n : i # j => q[i] # q[j]}

InitCache ==
    /\ name = ""
    /\ parts = <<>>
    /\ op = "none"
    /\ ret = VNone
    /\ ret2 = ""
    /\ NoBatch
    /\ NoRun
    /\ NoTools
    /\ NoWizard
    /\ events = <<>>
    /\ NoOther

\* One call of fn, a function that probes file_path through
\* run_mediainfo_json and returns what it makes of the output
Probing(file_path, fn) ==
    /\ Len(infos) < MaxProbes
    /\ \E run \in IF file_path \in DOMAIN mediainfo_cache THEN {<<>>} ELSE MediainfoRuns :
          \E r \in {run_mediainfo_json(file_path, mediainfo_cache, run)} :
             /\ mediainfo_cache' = r.cache
             /\ subprocess_calls' = subprocess_calls \o r.calls
             /\ infos' = Append(infos, r.ret)
             /\ ret' = CASE fn = "run_mediainfo_json" -> Return(r.ret)
                         [] fn = "get_file_duration" -> get_file_duration(r.ret)
                         [] fn = "detect_metadata_from_file" -> detect_metadata_from_file(r.ret)
    /\ name' = file_path
    /\ op' = fn
    /\ UNCHANGED <<parts, ret2, season_dir, use_mi, video_files, examined, metadata_samples,
                   warnings, runVars, wizardVars, events, otherVars>>

RunMediainfoJson ==
    \E file_path \in MediaPaths :
        Probing(file_path, "run_mediainfo_json")

GetFileDuration ==
    \E file_path \in MediaPaths :
        Probing(file_path, "get_file_duration")

DetectMetadataFromCache ==
    \E file_path \in MediaPaths :
        Probing(file_path, "detect_metadata_from_file")

PrewarmMediainfoCache ==
    \E files \in MediaLists :
        \E runs \in [{f \in MediaPaths : \E i \in 1..Len(files) : files[i] = f}
                        \ DOMAIN mediainfo_cache -> MediainfoRuns] :
            \E done \in CompletionOrders(Cardinality(DOMAIN runs)) :
                \E r \in {prewarm_mediainfo_cache(files, mediainfo_cache, runs, done)} :
                    /\ mediainfo_cache' = r.cache
                    /\ subprocess_calls' = subprocess_calls \o r.calls
                    /\ parts' = files
                    /\ name' = ""
                    /\ op' = "prewarm_mediainfo_cache"
                    /\ ret' = Return(VNone)
                    /\ UNCHANGED <<ret2, batchVars, runVars, wizardVars, events, otherVars>>

NextCache ==
    \/ RunMediainfoJson
    \/ GetFileDuration
    \/ DetectMetadataFromCache
    \/ PrewarmMediainfoCache

SpecCache == InitCache /\ [][NextCache]_vars

-----------------------------------------------------------------------------
(***************************************************************************)
(* Path mapping of mkbrr-wizard.py and mkbrr_helper.py                     *)
(***************************************************************************)

\* str.startswith
startswith(s, prefix) == Len(s) >= Len(prefix) /\ SubSeq(s, 1, Len(prefix)) = prefix

\* str.split("/")
RECURSIVE SplitSlash(_)
SplitSlash(s) ==
    LET cut == {i \in 1..Len(s) : Ch(s, i) = "/"}
        first == CHOOSE i \in cut : \A j \in cut : i <= j
    IN  IF cut = {} THEN <<s>>
        ELSE <<SubSeq(s, 1, first - 1)>> \o SplitSlash(SubSeq(s, first + 1, Len(s)))

\* "/".join
RECURSIVE JoinSlash(_)
JoinSlash(comps) ==
    IF comps = <<>> THEN ""
    ELSE IF Len(comps) = 1 THEN comps[1]
    ELSE comps[1] \o "/" \o JoinSlash(Tail(comps))

\* The loop of posixpath.normpath over the components of a path: empty and
\* "." components are skipped, ".." removes the component before it
RECURSIVE NormComps(_, _, _)
NormComps(comps, new_comps, initial_slashes) ==
    IF comps = <<>> THEN new_comps
    ELSE LET comp == Head(comps)
         IN  IF comp \in {"", "."} THEN NormComps(Tail(comps), new_comps, initial_slashes)
             ELSE IF \/ comp # ".."
                     \/ initial_slashes = 0 /\ new_comps = <<>>
                     \/ new_comps # <<>> /\ new_comps[Len(new_comps)] = ".."
             THEN NormComps(Tail(comps), Append(new_comps, comp), initial_slashes)
             ELSE IF new_comps # <<>>
             THEN NormComps(Tail(comps), SubSeq(new_comps, 1, Len(new_comps) - 1),
                            initial_slashes)
             ELSE NormComps(Tail(comps), new_comps, initial_slashes)

\* posixpath.normpath
normpath(path) ==
    LET initial_slashes == IF ~startswith(path, "/") THEN 0
                           ELSE IF startswith(path, "//") /\ ~startswith(path, "///") THEN 2
                           ELSE 1
        joined == JoinSlash(NormComps(SplitSlash(path), <<>>, initial_slashes))
        normed == (IF initial_slashes = 2 THEN "//" ELSE IF initial_slashes = 1 THEN "/" ELSE "")
                  \o joined
    IN  IF path = "" \/ normed = "" THEN "." ELSE normed

\* os.path.abspath in the working directory dir
abspath(path, dir) ==
    IF startswith(path, "/") THEN normpath(path)
    ELSE IF dir # "" /\ Ch(dir, Len(dir)) = "/" THEN normpath(dir \o path)
    ELSE normpath(dir \o "/" \o path)

\* map_content_path of mkbrr-wizard.py, lines 287-303, paths being cfg.paths
map_content_path(paths, rt, raw0, dir) ==
    LET raw == Strip(raw0, Whitespace)
        abs_path == abspath(raw, dir)
    IN  IF rt = "docker"
        THEN IF startswith(raw, paths.container_data_root \o "/") \/ raw = paths.container_data_root
             THEN raw
             ELSE IF startswith(abs_path, paths.host_data_root \o "/")
                     \/ abs_path = paths.host_data_root
             THEN paths.container_data_root
                  \o SubSeq(abs_path, Len(paths.host_data_root) + 1, Len(abs_path))
             ELSE raw
        ELSE IF startswith(raw, paths.host_data_root \o "/") \/ raw = paths.host_data_root
             THEN raw
             ELSE IF startswith(raw, paths.container_data_root \o "/")
                     \/ raw = paths.container_data_root
             THEN paths.host_data_root
                  \o SubSeq(raw, Len(paths.container_data_root) + 1, Len(raw))
             ELSE abs_path

\* mkbrr_helper.py, lines 25-26
HOST_DATA_ROOT == "/mnt/user/data"
CONTAINER_DATA_ROOT == "/data"

\* host_to_container_path of mkbrr_helper.py, lines 54-74
host_to_container_path(path0, dir) ==
    LET path == Strip(path0, Whitespace)
        abs_path == abspath(path, dir)
    IN  IF startswith(path, CONTAINER_DATA_ROOT \o "/") \/ path = CONTAINER_DATA_ROOT
        THEN path
        ELSE IF startswith(abs_path, HOST_DATA_ROOT)
        THEN CONTAINER_DATA_ROOT \o SubSeq(abs_path, Len(HOST_DATA_ROOT) + 1, Len(abs_path))
        ELSE path

\* Configured paths, as load_config leaves them (no "/" at the end): the
\* defaults, and roots of which one is the other with more letters
PathsCfgs ==
    {[host_data_root |-> h, container_data_root |-> c,
      host_output_dir |-> h \o "/torrentfiles", container_output_dir |-> "/torrentfiles",
      host_config_dir |-> "/mnt/cache/appdata/mkbrr",
      container_config_dir |-> "/root/.config/mkbrr"] :
        <<h, c>> \in {<<"/mnt/user/data", "/data">>, <<"/srv/media", "/media">>}}

\* The configurations load_config returns for them, with and without a
\* docker user; chown is off
AppCfgs ==
    {[chown |-> FALSE, docker_user |-> u,
      mkbrr |-> [binary |-> "mkbrr", image |-> "ghcr.io/autobrr/mkbrr"],
      paths |-> p,
      presets_yaml_host |-> p.host_config_dir \o "/presets.yaml",
      presets_yaml_container |-> p.container_config_dir \o "/presets.yaml"] :
        u \in {"", "99:100"}, p \in PathsCfgs}

\* Content paths: a start, something after it, blanks around
PathStarts ==
    {"/data", "/mnt/user/data", "/mnt/user/database", "/srv/media", "/media", "/other",
     "data", "../data", "/mnt/user/./data", "//mnt/user/data"}

PathRests == {"", "/", "/tv/Show", "/tv/Show/", "/../x", "//tv"}

PathBlanks == {<<"", "">>, <<"  ", " ">>}

ContentPaths ==
    {<<b[1], s, r, b[2]>> : b \in PathBlanks, s \in PathStarts, r \in PathRests}

WorkingDirs == {"/", "/mnt/user"}

InitPaths ==
    /\ parts \in ContentPaths
    /\ name = Join(parts)
    /\ op = "none"
    /\ ret = ""
    /\ ret2 = ""
    /\ NoBatch
    /\ NoRun
    /\ NoTools
    /\ cfg \in {c \in AppCfgs : c.docker_user = ""}
    /\ runtime \in {"docker", "native"}
    /\ cwd \in WorkingDirs
    /\ isatty = FALSE
    /\ disk = <<>>
    /\ console = <<>>
    /\ confirmed = <<>>
    /\ events = <<>>
    /\ NoOther

MapContentPath ==
    /\ op = "none"
    /\ op' = "map_content_path"
    /\ ret' = map_content_path(cfg.paths, runtime, name, cwd)
    /\ UNCHANGED <<name, parts, ret2, batchVars, runVars, toolVars, wizardVars, events, otherVars>>

HostToContainerPath ==
    /\ op = "none"
    /\ op' = "host_to_container_path"
    /\ ret' = host_to_container_path(name, cwd)
    /\ UNCHANGED <<name, parts, ret2, batchVars, runVars, toolVars, wizardVars, events, otherVars>>

NextPaths ==
    \/ MapContentPath
    \/ HostToContainerPath

SpecPaths == InitPaths /\ [][NextPaths]_vars

-----------------------------------------------------------------------------
(***************************************************************************)
(* The main loop of mkbrr-wizard.py                                        *)
(***************************************************************************)

\* str(Path(p)): empty and "." components and a "/" at the end are dropped
str_Path(p) ==
    LET initial_slashes == IF ~startswith(p, "/") THEN 0
                           ELSE IF startswith(p, "//") /\ ~startswith(p, "///") THEN 2
                           ELSE 1
        kept == JoinSlash(SelectSeq(SplitSlash(p), LAMBDA comp : comp \notin {"", "."}))
        text == (IF initial_slashes = 2 THEN "//" ELSE IF initial_slashes = 1 THEN "/" ELSE "")
                \o kept
    IN  IF text = "" THEN "." ELSE text

\* _clean_user_path, lines 110-125, with _expand_path, lines 101-107, for an
\* answer that holds no ~ and no $ (nothing to expand)
clean_user_path(answer) ==
    LET s == Strip(answer, Whitespace)
        quoted == Len(s) >= 2 /\ Ch(s, 1) = Ch(s, Len(s)) /\ Ch(s, 1) \in {"'", "\""}
        inner == IF quoted THEN Strip(SubSeq(s, 2, Len(s) - 1), Whitespace) ELSE s
    IN  IF inner = "" THEN "" ELSE str_Path(inner)

\* map_torrent_path, lines 306-322
map_torrent_path(paths, rt, raw0, dir) ==
    LET raw == Strip(raw0, Whitespace)
        abs_path == abspath(raw, dir)
    IN  IF rt = "docker"
        THEN IF startswith(raw, paths.container_output_dir \o "/")
                \/ raw = paths.container_output_dir
             THEN raw
             ELSE IF startswith(abs_path, paths.host_output_dir \o "/")
                     \/ abs_path = paths.host_output_dir
             THEN paths.container_output_dir
                  \o SubSeq(abs_path, Len(paths.host_output_dir) + 1, Len(abs_path))
             ELSE raw
        ELSE IF startswith(raw, paths.host_output_dir \o "/") \/ raw = paths.host_output_dir
             THEN raw
             ELSE IF startswith(raw, paths.container_output_dir \o "/")
                     \/ raw = paths.container_output_dir
             THEN paths.host_output_dir
                  \o SubSeq(raw, Len(paths.container_output_dir) + 1, Len(raw))
             ELSE abs_path

\* os.path.exists and os.path.isfile for the paths on fs, a path being looked
\* up in its absolute form
os_path_exists(path, dir, fs) == abspath(path, dir) \in DOMAIN fs

os_path_isfile(path, dir, fs) == os_path_exists(path, dir, fs) /\ fs[abspath(path, dir)] = "file"

\* docker_run_base, lines 330-352
docker_run_base(c, workdir, tty) ==
    <<"docker", "run", "--rm">>
    \o (IF tty THEN <<"-it">> ELSE <<>>)
    \o (IF c.docker_user # "" THEN <<"--user", c.docker_user>> ELSE <<>>)
    \o <<"-w", workdir,
         "-v", c.paths.host_data_root \o ":" \o c.paths.container_data_root,
         "-v", c.paths.host_output_dir \o ":" \o c.paths.container_output_dir,
         "-v", c.paths.host_config_dir \o ":" \o c.paths.container_config_dir,
         c.mkbrr.image, "mkbrr">>

\* The command of a create and the directory it runs in, lines 602-622
create_cmd(c, rt, content_path, preset, tty) ==
    IF rt = "docker"
    THEN [cmd |-> docker_run_base(c, c.paths.container_output_dir, tty)
                  \o <<"create", content_path, "-P", preset, "--preset-file",
                       c.presets_yaml_container>>,
          cwd |-> ""]
    ELSE [cmd |-> <<c.mkbrr.binary, "create", content_path, "-P", preset, "--preset-file",
                    c.presets_yaml_host>>,
          cwd |-> c.paths.host_output_dir]

\* The command of an inspect, lines 637-645
inspect_cmd(c, rt, torrent_path, verbose, tty) ==
    (IF rt = "docker"
     THEN docker_run_base(c, c.paths.container_config_dir, tty) \o <<"inspect", torrent_path>>
     ELSE <<c.mkbrr.binary, "inspect", torrent_path>>)
    \o (IF verbose THEN <<"-v">> ELSE <<>>)

\* ask_workers, lines 500-509: the number of workers, 0 for None
ask_workers(s) ==
    IF s = "auto" \/ s = "" THEN 0
    ELSE IF IsIntLiteral(s) THEN (IF IntOf(s) > 0 THEN IntOf(s) ELSE 0)
    ELSE 0

\* The command of a check, lines 678-692; verbose is dropped when quiet
check_cmd(c, rt, torrent_path, content_path, verbose, quiet, workers, tty) ==
    (IF rt = "docker"
     THEN docker_run_base(c, c.paths.container_config_dir, tty)
          \o <<"check", torrent_path, content_path>>
     ELSE <<c.mkbrr.binary, "check", torrent_path, content_path>>)
    \o (IF verbose /\ ~quiet THEN <<"-v">> ELSE <<>>)
    \o (IF quiet THEN <<"--quiet">> ELSE <<>>)
    \o (IF workers # 0 THEN <<"--workers", IntToStr(workers)>> ELSE <<>>)

\* The create goes on to mkbrr although the content path is checked
create_refused_Never(rt, content_path, dir, fs) == FALSE

\* A create is refused, lines 594-598
create_refused(rt, content_path, dir, fs) ==
    rt = "native" /\ ~os_path_exists(content_path, dir, fs)

\* What a check is refused with, lines 660-667: nothing if it is not
check_refused(rt, torrent_path, content_path, dir, fs) ==
    IF rt = "native" /\ ~os_path_isfile(torrent_path, dir, fs)
    THEN <<"Torrent file not found: " \o torrent_path>>
    ELSE IF rt = "native" /\ ~os_path_exists(content_path, dir, fs)
    THEN <<"Content path not found: " \o content_path>>
    ELSE <<>>

\* What there is on the disk: nothing, or a content folder and a torrent file
Disks ==
    {<<>>,
     ("/mnt/user/data/tv/Show" :> "dir")
        @@ ("/mnt/user/data/torrentfiles/Show.torrent" :> "file")}

\* The answers to the prompts of a create: the preset and the content path
CreateAnswers ==
    {<<"btn", "/mnt/user/data/tv/Show">>, <<"custom", "'/data/tv/Show/'">>, <<"btn", " ">>}

\* The answers to the prompts of an inspect: the torrent path and verbose
InspectAnswers == {<<"/torrentfiles/Show.torrent", TRUE>>, <<"", FALSE>>}

\* The answers to the prompts of a check: the torrent path, the content
\* path, verbose, quiet and workers.  The second torrent path is a folder,
\* the third content path is not on the disk.
CheckAnswers ==
    {<<"/torrentfiles/Show.torrent", "/data/tv/Show", FALSE, FALSE, "auto">>,
     <<"/mnt/user/data/tv/Show", "/mnt/user/data/tv/Show", TRUE, TRUE, "4">>,
     <<"/mnt/user/data/torrentfiles/Show.torrent", "/mnt/user/data/tv/Gone", TRUE, FALSE, "x">>}

\* The operations begun: choose_action prints its panel once for each
Operations(printed) == Cardinality({k \in 1..Len(printed) : printed[k] = "Action"})

InitWizard ==
    /\ name = ""
    /\ parts = <<>>
    /\ op = "main"
    /\ ret = VNone
    /\ ret2 = ""
    /\ NoBatch
    /\ NoRun
    /\ NoTools
    /\ cfg \in {c \in AppCfgs : c.paths.host_data_root = "/mnt/user/data" /\ c.docker_user # ""}
    /\ runtime \in {"docker", "native"}
    /\ cwd = "/"
    /\ isatty \in BOOLEAN
    /\ disk \in Disks
    /\ console = <<>>
    /\ confirmed = <<>>
    /\ events = <<>>
    /\ NoOther

\* What follows subprocess.run in every branch of main: only the create
\* branch calls maybe_fix_torrent_permissions, and only under
\* r.returncode == 0, lines 626-632, 647-652, 694-699
fixes_permissions_AnyExit(action, returncode) == action = "create"

fixes_permissions(action, returncode) == action = "create" /\ returncode = 0

\* confirm_cmd and what follows it in every operation: the command is
\* shown, run if the user proceeds, and the result printed; then the user is
\* asked for another operation, lines 624-631, 646-652, 693-703
ConfirmAndRun(printed, cmd, done) ==
    \E proceed \in BOOLEAN, returncode \in {0, 1}, another \in BOOLEAN :
        /\ confirmed' = Append(confirmed, cmd)
        /\ subprocess_calls' = IF proceed THEN Append(subprocess_calls, cmd)
                               ELSE subprocess_calls
        /\ events' = events \o <<<<"confirm_cmd", op', proceed>>>>
                      \o (IF proceed THEN <<<<"subprocess.run", op', returncode>>>> ELSE <<>>)
                      \o (IF proceed /\ fixes_permissions(op', returncode)
                          THEN <<<<"maybe_fix_torrent_permissions", op', cfg.chown>>>>
                          ELSE <<>>)
        /\ console' = printed \o <<"Command Preview">>
                      \o (IF ~proceed THEN <<>>
                          ELSE IF returncode = 0 THEN <<done>>
                          ELSE <<"mkbrr exited with code " \o IntToStr(returncode)>>)
                      \o (IF another THEN <<>> ELSE <<"Bye.">>)
        /\ ret' = IF another THEN VNone ELSE Return(VNone)

\* ask_path found no path, lines 487-489
NoPathProvided(printed) ==
    /\ console' = Append(printed, "No path provided.")
    /\ ret' = Raise("SystemExit")
    /\ UNCHANGED <<confirmed, subprocess_calls, events>>

\* An operation ended by continue: nothing is confirmed or run
Refused(printed) ==
    /\ console' = printed
    /\ ret' = VNone
    /\ UNCHANGED <<confirmed, subprocess_calls, events>>

\* One pass of the loop with action "create", lines 588-631
MainCreate ==
    /\ ret = VNone
    /\ Operations(console) < MaxOperations
    /\ op' = "create"
    /\ \E answers \in CreateAnswers :
          LET preset == answers[1]
              raw == clean_user_path(answers[2])
              content_path == map_content_path(cfg.paths, runtime, raw, cwd)
              run == create_cmd(cfg, runtime, content_path, preset, isatty)
          IN  /\ name' = raw
              /\ ret2' = ""
              /\ IF raw = "" THEN NoPathProvided(Append(console, "Action"))
                 ELSE IF create_refused(runtime, content_path, cwd, disk)
                 THEN Refused(console \o <<"Action",
                                           "Content path does not exist: " \o content_path,
                                           "Tip: don't wrap the path in quotes">>)
                 ELSE ConfirmAndRun(Append(console, "Action"), run.cmd, "mkbrr create finished.")
    /\ UNCHANGED <<parts, batchVars, runVars, mediainfo_cache, cfg, runtime, cwd, isatty, disk,
                otherVars>>

\* One pass of the loop with action "inspect", lines 633-652
MainInspect ==
    /\ ret = VNone
    /\ Operations(console) < MaxOperations
    /\ op' = "inspect"
    /\ \E answers \in InspectAnswers :
          LET raw == clean_user_path(answers[1])
              verbose == answers[2]
              torrent_path == map_torrent_path(cfg.paths, runtime, raw, cwd)
          IN  /\ name' = ""
              /\ ret2' = raw
              /\ IF raw = "" THEN NoPathProvided(Append(console, "Action"))
                 ELSE ConfirmAndRun(Append(console, "Action"),
                                    inspect_cmd(cfg, runtime, torrent_path, verbose, isatty),
                                    "done.")
    /\ UNCHANGED <<parts, batchVars, runVars, mediainfo_cache, cfg, runtime, cwd, isatty, disk,
                otherVars>>

\* One pass of the loop with action "check", lines 654-703
MainCheck ==
    /\ ret = VNone
    /\ Operations(console) < MaxOperations
    /\ op' = "check"
    /\ \E answers \in CheckAnswers :
          LET raw_t == clean_user_path(answers[1])
              raw_c == clean_user_path(answers[2])
              torrent_path == map_torrent_path(cfg.paths, runtime, raw_t, cwd)
              content_path == map_content_path(cfg.paths, runtime, raw_c, cwd)
              refused == check_refused(runtime, torrent_path, content_path, cwd, disk)
              workers == ask_workers(answers[5])
              asked == (IF IsIntLiteral(answers[5]) \/ answers[5] \in {"auto", ""} THEN <<>>
                        ELSE <<"Invalid workers; using auto.">>)
                       \o (IF answers[3] /\ answers[4]
                           THEN <<"Both verbose and quiet selected; preferring quiet.">>
                           ELSE <<>>)
          IN  /\ name' = raw_c
              /\ ret2' = raw_t
              /\ IF raw_t = "" \/ raw_c = "" THEN NoPathProvided(Append(console, "Action"))
                 ELSE IF refused # <<>> THEN Refused(Append(console, "Action") \o refused)
                 ELSE ConfirmAndRun(Append(console, "Action") \o asked,
                                    check_cmd(cfg, runtime, torrent_path, content_path,
                                              answers[3], answers[4], workers, isatty),
                                    "data verified.")
    /\ UNCHANGED <<parts, batchVars, runVars, mediainfo_cache, cfg, runtime, cwd, isatty, disk,
                otherVars>>

\* choose_action is answered q, lines 466-467
MainQuit ==
    /\ ret = VNone
    /\ op' = "quit"
    /\ ret' = Raise("SystemExit")
    /\ console' = Append(console, "Action")
    /\ UNCHANGED <<name, parts, ret2, batchVars, runVars, toolVars, cfg, runtime, cwd, isatty,
                   disk, confirmed, events, otherVars>>

NextWizard ==
    \/ MainCreate
    \/ MainInspect
    \/ MainCheck
    \/ MainQuit

SpecWizard == InitWizard /\ [][NextWizard]_vars

-----------------------------------------------------------------------------
(* The preset loaders: load_presets_from_yaml of mkbrr_helper.py and        *)
(* load_presets of mkbrr-wizard.py.  presets_yaml is the file as the loader *)
(* finds it: missing, unreadable by yaml.safe_load, or the value            *)
(* yaml.safe_load returns.  A mapping keeps the order of its keys.          *)

\* The list both loaders fall back to
FALLBACK_PRESETS == <<"btn", "custom">>

\* A mapping whose keys stand in the file in the order of keys
VMapping(keys) ==
    [t |-> "dict", v |-> [k \in {keys[i] : i \in 1..Len(keys)} |-> VDict(<<>>)], keys |-> keys]

\* ["btn"] + [p for p in presets if p != "btn"] when "btn" is in presets
btn_first(presets) ==
    IF \E i \in 1..Len(presets) : presets[i] = "btn"
    THEN <<"btn">> \o SelectSeq(presets, LAMBDA x : x # "btn")
    ELSE presets

\* load_presets_from_yaml, mkbrr_helper.py lines 129-165
load_presets_from_yaml(doc) ==
    IF ~doc.exists THEN Return(FALLBACK_PRESETS)
    ELSE IF ~doc.parses THEN Return(FALLBACK_PRESETS)
    ELSE LET data == IF Truthy(doc.root) THEN doc.root ELSE VDict(<<>>)
         IN  IF data.t # "dict" THEN Raise("AttributeError")
             ELSE LET got == Get(data.v, "presets", VNone)
                      presets_node == IF Truthy(got) THEN got ELSE VDict(<<>>)
                  IN  IF presets_node.t # "dict" \/ ~Truthy(presets_node)
                      THEN Return(FALLBACK_PRESETS)
                      ELSE Return(btn_first(presets_node.keys))

\* load_presets, mkbrr-wizard.py lines 403-419
load_presets(doc) ==
    IF ~doc.exists THEN Return(FALLBACK_PRESETS)
    ELSE IF ~doc.parses THEN Raise("YAMLError")
    ELSE LET data == IF doc.root.t = "dict" THEN doc.root ELSE VDict(<<>>)
             got == Get(data.v, "presets", VNone)
             presets_node == IF Truthy(got) THEN got ELSE VDict(<<>>)
         IN  IF ~Truthy(presets_node) THEN Return(FALLBACK_PRESETS)
             ELSE IF presets_node.t # "dict" THEN Raise("AttributeError")
             ELSE Return(btn_first(presets_node.keys))

\* The preset names of the files
PresetNames == {"btn", "mam", "red", "custom"}

\* The keys of a presets mapping, in file order: up to MaxPresets names
PresetKeys ==
    {q \in UNION {[1..n -> PresetNames] : n \in 1..MaxPresets} :
        \A i, j \in 1..Len(q) : i # j => q[i] # q[j]}

\* The values of the key presets
PresetsNodes ==
    {VNone, VDict(<<>>), VList(<<>>), VList(<<VStr("btn"), VStr("mam")>>), VStr("btn"),
     VInt(1)}
    \cup {VMapping(q) : q \in PresetKeys}

\* What yaml.safe_load returns: None for an empty file, a list, a string,
\* a mapping without the key presets, a mapping with it
YamlRoots ==
    {VNone, VList(<<VStr("btn")>>), VStr("presets"), VDict(<<>>),
     VDict("version" :> VInt(1))}
    \cup {VDict("presets" :> node) : node \in PresetsNodes}

PresetsFiles ==
    {[exists |-> FALSE], [exists |-> TRUE, parses |-> FALSE]}
    \cup {[exists |-> TRUE, parses |-> TRUE, root |-> root] : root \in YamlRoots}

InitPresets ==
    /\ name = ""
    /\ parts = <<>>
    /\ op = "none"
    /\ ret = VNone
    /\ ret2 = ""
    /\ NoBatch
    /\ NoRun
    /\ NoTools
    /\ NoWizard
    /\ events = <<>>
    /\ presets_yaml \in PresetsFiles
    /\ NoRenames
    /\ NoTmdb
    /\ NoDiscs
    /\ NoPool

LoadPresetsFromYaml ==
    /\ op = "none"
    /\ op' = "load_presets_from_yaml"
    /\ ret' = load_presets_from_yaml(presets_yaml)
    /\ UNCHANGED <<name, parts, ret2, batchVars, runVars, toolVars, wizardVars, events,
                   otherVars>>

LoadPresets ==
    /\ op = "none"
    /\ op' = "load_presets"
    /\ ret' = load_presets(presets_yaml)
    /\ UNCHANGED <<name, parts, ret2, batchVars, runVars, toolVars, wizardVars, events,
                   otherVars>>

NextPresets ==
    \/ LoadPresetsFromYaml
    \/ LoadPresets

SpecPresets == InitPresets /\ [][NextPresets]_vars

-----------------------------------------------------------------------------
(* execute_renames_safely of rip_renamer.py, lines 1559-1663, step by step: *)
(* the pre-flight check, the manifest, the confirmation prompt and the      *)
(* renames one after the other.  events holds the calls made to the file    *)
(* system and to input(), in order, each rename with the position of its    *)
(* pair in the batch; op is the step taken last.                            *)

\* The position of the last "/" of s at or before i, 0 without one
RECURSIVE LastSlash(_, _)
LastSlash(s, i) ==
    IF i = 0 THEN 0
    ELSE IF Ch(s, i) = "/" THEN i
    ELSE LastSlash(s, i - 1)

\* Path.parent of an absolute path
path_parent(p) ==
    LET k == LastSlash(p, Len(p))
    IN  IF k <= 1 THEN "/" ELSE SubSeq(p, 1, k - 1)

\* Path.exists()
path_exists(p, fs) == p \in DOMAIN fs

\* The pre-flight loop without its elif: only targets on the disk are refused
preflight_OnDiskOnly(batch, fs) ==
    LET on_disk(i) == path_exists(batch[i][2], fs) /\ batch[i][2] # batch[i][1]
        RECURSIVE From(_)
        From(i) ==
            IF i > Len(batch) THEN <<>>
            ELSE (IF on_disk(i)
                  THEN <<<<batch[i][1], batch[i][2], "file exists on disk">>>>
                  ELSE <<>>)
                 \o From(i + 1)
    IN  From(1)

\* The pre-flight loop, lines 1578-1587: the conflicts, in batch order
preflight(batch, fs) ==
    LET on_disk(i) == path_exists(batch[i][2], fs) /\ batch[i][2] # batch[i][1]
        planned(i) == {batch[j][2] : j \in 1..(i - 1)}
        RECURSIVE From(_)
        From(i) ==
            IF i > Len(batch) THEN <<>>
            ELSE (IF on_disk(i)
                  THEN <<<<batch[i][1], batch[i][2], "file exists on disk">>>>
                  ELSE IF batch[i][2] \in planned(i)
                  THEN <<<<batch[i][1], batch[i][2], "duplicate target in batch">>>>
                  ELSE <<>>)
                 \o From(i + 1)
    IN  From(1)

\* generate_manifest that writes nothing
generate_manifest_Nothing(batch, output_dir, fs) == <<>>

\* generate_manifest, lines 1525-1556: the calls it makes to the file
\* system, the directory being made only where there is none
generate_manifest(batch, output_dir, fs) ==
    IF batch = <<>> THEN <<>>
    ELSE <<<<"mkdir", output_dir, ~path_exists(output_dir, fs)>>,
           <<"write", output_dir \o "/rename_manifest.json", batch>>>>

\* The file system after the calls
RECURSIVE AfterCalls(_, _)
AfterCalls(fs, calls) ==
    IF calls = <<>> THEN fs
    ELSE LET c == Head(calls)
             next == CASE c[1] = "mkdir" -> (c[2] :> "dir") @@ fs
                       [] c[1] = "write" -> (c[2] :> "file") @@ fs
                       [] c[1] = "exists" -> fs
                       [] c[1] = "rename" ->
                            IF c[2] = c[3] \/ ~c[4] THEN fs
                            ELSE [p \in (DOMAIN fs \ {c[2]}) \cup {c[3]} |->
                                     IF p = c[3] THEN fs[c[2]] ELSE fs[p]]
         IN  AfterCalls(next, Tail(calls))

\* The pairs of a batch: two rips, two episode names, and an episode file
\* that already has its name
RenamePairs ==
    {<<"/mkv/t00.mkv", "/out/S01/E01.mkv">>, <<"/mkv/t01.mkv", "/out/S01/E01.mkv">>,
     <<"/mkv/t01.mkv", "/out/S01/E02.mkv">>, <<"/out/S01/E01.mkv", "/out/S01/E01.mkv">>,
     <<"/mkv/t00.mkv", "/out/S02/E01.mkv">>}

RenameBatches == UNION {[1..n -> RenamePairs] : n \in 0..MaxRenames}

\* The file system before the call: the output directory S01 is there or
\* not, with or without the first episode; the second rip is there or not
RenameDisks ==
    {("/mkv/t00.mkv" :> "file") @@ a @@ b :
        a \in {<<>>, ("/mkv/t01.mkv" :> "file")},
        b \in {<<>>, ("/out/S01" :> "dir"),
               ("/out/S01" :> "dir") @@ ("/out/S01/E01.mkv" :> "file")}}

\* What the user types at the prompt
ConfirmAnswers == {"y", " Y ", "n", ""}

InitRenames ==
    /\ name = ""
    /\ parts = <<>>
    /\ op = "none"
    /\ ret = VNone
    /\ ret2 = ""
    /\ NoBatch
    /\ NoRun
    /\ NoTools
    /\ cfg \in {[skip_confirm |-> b] : b \in BOOLEAN}
    /\ runtime = ""
    /\ cwd = "/"
    /\ isatty = FALSE
    /\ disk \in RenameDisks
    /\ console = <<>>
    /\ confirmed = <<>>
    /\ events = <<>>
    /\ presets_yaml = <<>>
    /\ renames \in RenameBatches
    /\ conflicts = <<>>
    /\ successful = <<>>
    /\ skipped = 0
    /\ NoTmdb
    /\ NoDiscs
    /\ NoPool

\* The pair the execution loop takes next
NextRename == Len(successful) + skipped + 1

\* The call and the pre-flight check with its summary, lines 1574-1621
ExecuteRenamesSafely ==
    /\ op = "none"
    /\ IF renames = <<>>
       THEN /\ op' = "return"
            /\ ret' = Return(VTuple(<<0, 0, <<>>>>))
            /\ UNCHANGED <<conflicts, console, events>>
       ELSE /\ op' = "preflight"
            /\ conflicts' = preflight(renames, disk)
            /\ events' = [i \in 1..Len(renames) |->
                             <<"exists", renames[i][2], path_exists(renames[i][2], disk)>>]
            /\ console' = <<"PRE-EXECUTE SUMMARY">>
                          \o (IF conflicts' # <<>> THEN <<"CONFLICTS DETECTED">> ELSE <<>>)
            /\ UNCHANGED ret
    /\ UNCHANGED <<name, parts, ret2, batchVars, runVars, toolVars, cfg, runtime, cwd, isatty,
                   disk, confirmed, presets_yaml, renames, successful, skipped, tmdbVars,
                   discVars, poolVars>>

\* generate_manifest for the directory of the first target, lines 1623-1627;
\* mkdir or open may raise OSError
GenerateManifest ==
    /\ op = "preflight"
    /\ \E fails \in BOOLEAN :
          LET calls == generate_manifest(renames, path_parent(renames[1][2]), disk)
          IN  IF fails
              THEN /\ op' = "raise"
                   /\ ret' = Raise("OSError")
                   /\ UNCHANGED <<events, disk, console>>
              ELSE /\ op' = "generate_manifest"
                   /\ events' = events \o calls
                   /\ disk' = AfterCalls(disk, calls)
                   /\ console' = console \o (IF calls # <<>> THEN <<"Manifest saved">> ELSE <<>>)
                   /\ UNCHANGED ret
    /\ UNCHANGED <<name, parts, ret2, batchVars, runVars, toolVars, cfg, runtime, cwd, isatty,
                   confirmed, otherVars>>

\* The confirmation prompt, lines 1630-1636
Confirm ==
    /\ op = "generate_manifest"
    /\ ~cfg.skip_confirm
    /\ \E answer \in ConfirmAnswers :
          /\ events' = Append(events, <<"input", "Proceed with rename? [y/N]: ", answer>>)
          /\ IF StrLower(Strip(answer, SpaceSet)) # "y"
             THEN /\ op' = "return"
                  /\ ret' = Return(VTuple(<<0, Len(renames), <<>>>>))
                  /\ console' = Append(console, "Aborted. No files were changed.")
             ELSE /\ op' = "input"
                  /\ UNCHANGED <<ret, console>>
    /\ UNCHANGED <<name, parts, ret2, batchVars, runVars, toolVars, cfg, runtime, cwd, isatty,
                   disk, confirmed, otherVars>>

\* The execution loop is entered or under way
Executing ==
    \/ op \in {"input", "rename"}
    \/ op = "generate_manifest" /\ cfg.skip_confirm

\* One pass of the execution loop, lines 1641-1657: rename raises for a
\* source that is not there and may raise for one that is
Rename ==
    /\ Executing
    /\ NextRename <= Len(renames)
    /\ op' = "rename"
    /\ LET old_path == renames[NextRename][1]
           new_path == renames[NextRename][2]
           conflict_set == {<<conflicts[i][1], conflicts[i][2]>> : i \in 1..Len(conflicts)}
       IN  IF <<old_path, new_path>> \in conflict_set
           THEN /\ skipped' = skipped + 1
                /\ UNCHANGED <<successful, events, disk>>
           ELSE \E ok \in IF path_exists(old_path, disk) THEN BOOLEAN ELSE {FALSE} :
                   LET calls == <<<<"mkdir", path_parent(new_path),
                                    ~path_exists(path_parent(new_path), disk)>>,
                                  <<"rename", old_path, new_path, ok, NextRename>>>>
                   IN  /\ events' = events \o calls
                       /\ disk' = AfterCalls(disk, calls)
                       /\ successful' = IF ok THEN Append(successful, <<old_path, new_path>>)
                                        ELSE successful
                       /\ skipped' = IF ok THEN skipped ELSE skipped + 1
    /\ UNCHANGED <<name, parts, ret, ret2, batchVars, runVars, toolVars, cfg, runtime, cwd,
                   isatty, console, confirmed, presets_yaml, renames, conflicts, tmdbVars,
                   discVars, poolVars>>

\* The return after the loop, lines 1658-1663
ReturnRenamed ==
    /\ Executing
    /\ NextRename > Len(renames)
    /\ op' = "return"
    /\ ret' = Return(VTuple(<<Len(successful), skipped, successful>>))
    /\ console' = Append(console, "Renamed " \o IntToStr(Len(successful)) \o " files")
    /\ UNCHANGED <<name, parts, ret2, batchVars, runVars, toolVars, cfg, runtime, cwd, isatty,
                   disk, confirmed, events, otherVars>>

NextRenames ==
    \/ ExecuteRenamesSafely
    \/ GenerateManifest
    \/ Confirm
    \/ Rename
    \/ ReturnRenamed

SpecRenames == InitRenames /\ [][NextRenames]_vars

-----------------------------------------------------------------------------
(* _tmdb_request of rip_renamer.py, lines 547-630, attempt by attempt.       *)
(* tmdb_cache is the cache file of the cache key; events holds the HTTP     *)
(* requests, the sleeps and the cache writes, in order.                     *)

TMDB_MAX_RETRIES == 3
TMDB_RETRY_DELAY == 1

\* 2**n
RECURSIVE Pow2(_)
Pow2(n) == IF n = 0 THEN 1 ELSE 2 * Pow2(n - 1)

\* get_cached_response, lines 187-207: the data of a cache file younger
\* than expiration_minutes, None for a missing, unreadable or older one
get_cached_response(cache) ==
    IF cache = <<>> THEN VNone
    ELSE IF ~cache.readable THEN VNone
    ELSE IF cache.fresh THEN cache.data
    ELSE VNone

\* Whether the loop goes on after the outcome of an attempt, lines 589-623:
\* an exception of httpx or a status error, but no 4xx other than 429
retries(outcome) ==
    IF "exc" \in DOMAIN outcome THEN TRUE
    ELSE IF outcome.status = 429 THEN TRUE
    ELSE ~(400 <= outcome.status /\ outcome.status < 500)

\* Whether the attempt numbered from 0 is followed by time.sleep
sleeps(n) == n < TMDB_MAX_RETRIES - 1

\* The response TMDB gives to the request
TmdbData == VDict("id" :> VInt(1399))

\* What client.get, raise_for_status and resp.json make of one attempt: an
\* exception of httpx, a status, and for status 200 a body that is JSON or
\* is not
HttpOutcomes ==
    {[exc |-> "TimeoutException"], [exc |-> "ConnectError"],
     [status |-> 200, json |-> TRUE], [status |-> 200, json |-> FALSE],
     [status |-> 429], [status |-> 404], [status |-> 500]}

\* The cache file before the call: none, unreadable, expired or fresh
TmdbCaches ==
    {<<>>, [readable |-> FALSE]}
    \cup {[readable |-> TRUE, fresh |-> f, data |-> TmdbData] : f \in BOOLEAN}

InitTmdb ==
    /\ name = ""
    /\ parts = <<>>
    /\ op = "none"
    /\ ret = VNone
    /\ ret2 = ""
    /\ NoBatch
    /\ NoRun
    /\ NoTools
    /\ cfg \in {[cache_key |-> k] : k \in {"", "tv_1399"}}
    /\ runtime = ""
    /\ cwd = "/"
    /\ isatty = FALSE
    /\ disk = <<>>
    /\ console = <<>>
    /\ confirmed = <<>>
    /\ events = <<>>
    /\ presets_yaml = <<>>
    /\ NoRenames
    /\ tmdb_cache \in TmdbCaches
    /\ attempt = 0
    /\ last_error = ""
    /\ NoDiscs
    /\ NoPool

\* The call and the cache lookup, lines 565-570
TmdbRequest ==
    /\ op = "none"
    /\ LET cached == IF cfg.cache_key # "" THEN get_cached_response(tmdb_cache) ELSE VNone
       IN  IF cached # VNone
           THEN op' = "return" /\ ret' = Return(cached)
           ELSE op' = "request" /\ UNCHANGED ret
    /\ UNCHANGED <<name, parts, ret2, batchVars, runVars, toolVars, wizardVars, events,
                   otherVars>>

\* One pass of the retry loop, lines 574-624
TmdbAttempt ==
    /\ op = "request"
    /\ attempt < TMDB_MAX_RETRIES
    /\ attempt' = attempt + 1
    /\ \E outcome \in HttpOutcomes :
          LET get == <<"get", attempt + 1, outcome>>
              delay == TMDB_RETRY_DELAY * Pow2(attempt)
          IN  IF "status" \in DOMAIN outcome /\ outcome.status = 200
              THEN IF outcome.json
                   THEN /\ op' = "return"
                        /\ ret' = Return(TmdbData)
                        /\ events' = events \o <<get>>
                                     \o (IF cfg.cache_key # ""
                                         THEN <<<<"save_to_cache", cfg.cache_key>>>>
                                         ELSE <<>>)
                        /\ tmdb_cache' = IF cfg.cache_key # ""
                                         THEN [readable |-> TRUE, fresh |-> TRUE,
                                               data |-> TmdbData]
                                         ELSE tmdb_cache
                        /\ UNCHANGED last_error
                   ELSE /\ op' = "raise"
                        /\ ret' = Raise("JSONDecodeError")
                        /\ events' = Append(events, get)
                        /\ UNCHANGED <<tmdb_cache, last_error>>
              ELSE /\ last_error' = IF "exc" \in DOMAIN outcome THEN outcome.exc
                                    ELSE "HTTPStatusError"
                   /\ op' = IF retries(outcome) THEN "request" ELSE "break"
                   /\ events' = events \o <<get>>
                                \o (IF retries(outcome) /\ sleeps(attempt)
                                    THEN <<<<"sleep", delay>>>> ELSE <<>>)
                   /\ UNCHANGED <<ret, tmdb_cache>>
    /\ UNCHANGED <<name, parts, ret2, batchVars, runVars, toolVars, wizardVars, presets_yaml,
                   renameVars, discVars, poolVars>>

\* After the loop, lines 625-630: the error is printed and None returned
TmdbGiveUp ==
    /\ \/ op = "break"
       \/ op = "request" /\ attempt = TMDB_MAX_RETRIES
    /\ op' = "return"
    /\ ret' = Return(VNone)
    /\ console' = IF last_error # ""
                  THEN Append(console, "TMDB API error after "
                                       \o IntToStr(TMDB_MAX_RETRIES) \o " attempts: "
                                       \o last_error)
                  ELSE console
    /\ UNCHANGED <<name, parts, ret2, batchVars, runVars, toolVars, cfg, runtime, cwd, isatty,
                   disk, confirmed, events, otherVars>>

NextTmdb ==
    \/ TmdbRequest
    \/ TmdbAttempt
    \/ TmdbGiveUp

SpecTmdb == InitTmdb /\ [][NextTmdb]_vars

-----------------------------------------------------------------------------
(* Single-season processing of run_auto_discovery, rip_renamer.py lines     *)
(* 2605-2704: the discs are numbered one after the other.  A disc is its   *)
(* number, its part (0 for none) and the number of its files; episodes      *)
(* holds, disc by disc, the episode numbers process_disc_interactive gave   *)
(* to the files it kept.                                                    *)

\* has_parts, line 2614
has_parts(ds) == \E d \in 1..Len(ds) : ds[d].part # 0

\* disc_start_ep, lines 2674-2677
disc_start_ep(auto_mode, parts_found, running, start_ep, disc_num, eps_per_disc) ==
    IF auto_mode \/ parts_found THEN running
    ELSE start_ep + (disc_num - 1) * eps_per_disc

\* ep_num of each file of the loop of process_disc_interactive, lines
\* 1991-1992 and 2085: kept files are processed, count is their number
disc_episodes(start_episode, kept) == [i \in 1..kept |-> start_episode + (i - 1)]

\* The running count that takes every file of the disc for an episode
next_episode_AllFiles(start, files_processed, file_count) == start + file_count

\* current_ep for the next disc, line 2704
next_episode(start, files_processed, file_count) == start + files_processed

\* The discs of a series: numbered from 1, all without part or each a part
DiscLists ==
    {[d \in 1..n |-> [disc |-> d, part |-> IF tagged THEN d ELSE 0, files |-> count[d]]] :
        <<n, tagged, count>> \in
            {<<n, tagged, count>> \in (1..MaxDiscs) \X BOOLEAN
                                       \X UNION {[1..m -> 0..MaxDiscFiles] : m \in 1..MaxDiscs} :
                Len(count) = n}}

\* The answers that set the numbering: auto mode with its defaults, or the
\* start episode and the episodes per disc the user typed
NumberingCfgs ==
    {[auto_mode |-> TRUE, start_ep |-> 1, eps_per_disc |-> 0]}
    \cup {[auto_mode |-> FALSE, start_ep |-> s, eps_per_disc |-> MaxDiscFiles] : s \in {1, 5}}

InitDiscs ==
    /\ name = ""
    /\ parts = <<>>
    /\ op = "none"
    /\ ret = VNone
    /\ ret2 = ""
    /\ NoBatch
    /\ NoRun
    /\ NoTools
    /\ cfg \in NumberingCfgs
    /\ runtime = ""
    /\ cwd = "/"
    /\ isatty = FALSE
    /\ disk = <<>>
    /\ console = <<>>
    /\ confirmed = <<>>
    /\ events = <<>>
    /\ presets_yaml = <<>>
    /\ NoRenames
    /\ NoTmdb
    /\ discs \in DiscLists
    /\ current_ep = (IF cfg.auto_mode THEN 1 ELSE cfg.start_ep)
    /\ episodes = <<>>
    /\ NoPool

\* One pass of the loop over the discs, lines 2667-2704: of the files of the
\* disc process_disc_interactive keeps all or leaves extras out
ProcessDisc ==
    /\ Len(episodes) < Len(discs)
    /\ op' = "process_disc_interactive"
    /\ LET disc == discs[Len(episodes) + 1]
           start == disc_start_ep(cfg.auto_mode, has_parts(discs), current_ep, cfg.start_ep,
                                  disc.disc, cfg.eps_per_disc)
       IN  \E kept \in 0..disc.files :
              /\ episodes' = Append(episodes, disc_episodes(start, kept))
              /\ current_ep' = next_episode(start, kept, disc.files)
              /\ ret' = Return(VTuple(<<kept, disc.files - kept>>))
              /\ console' = Append(console, "Episodes: " \o IntToStr(start) \o " - "
                                            \o IntToStr(start + disc.files - 1))
    /\ UNCHANGED <<name, parts, ret2, batchVars, runVars, toolVars, cfg, runtime, cwd, isatty,
                   disk, confirmed, events, presets_yaml, renameVars, tmdbVars, discs,
                   poolVars>>

NextDiscs == ProcessDisc

SpecDiscs == InitDiscs /\ [][NextDiscs]_vars

-----------------------------------------------------------------------------
(* prewarm_mediainfo_cache of rip_renamer.py, lines 289-319, thread by      *)
(* thread: the calling thread submits one scan_file per uncached path,      *)
(* up to max_workers worker threads run them, and the calling thread takes  *)
(* the futures as they complete.  futures[i] is the state of the scan of    *)
(* submitted[i]: pending, running, done with its result, or consumed.       *)
(* events holds the writes to _mediainfo_cache, in order.                   *)

\* _mediainfo_cache[file_path] = data, line 318
store_result_OnlyData(cache, file_path, data) ==
    IF data = VNone THEN cache
    ELSE [f \in DOMAIN cache \cup {file_path} |-> IF f = file_path THEN data ELSE cache[f]]

store_result(cache, file_path, data) ==
    [f \in DOMAIN cache \cup {file_path} |-> IF f = file_path THEN data ELSE cache[f]]

\* The files of the discs
ScanPaths == {"BD1/0000" \o IntToStr(i) \o ".mkv" : i \in 1..MaxScans}

\* The lists prewarm_mediainfo_cache is given: files in sorted order, each
\* once
ScanLists ==
    {q \in UNION {[1..n -> ScanPaths] : n \in 0..MaxScans} :
        \A i, j \in 1..Len(q) : i < j => StrLess(q[i], q[j])}

\* The futures in state s
FuturesIn(s) == {i \in 1..Len(futures) : futures[i].state = s}

InitPool ==
    /\ name = ""
    /\ parts = <<>>
    /\ op = "none"
    /\ ret = VNone
    /\ ret2 = ""
    /\ NoBatch
    /\ NoRun
    /\ mediainfo_cache \in {<<>>, ("BD1/00001.mkv" :> GoodProbe)}
    /\ subprocess_calls = <<>>
    /\ cfg \in {[files |-> q, max_workers |-> w] : q \in ScanLists, w \in 1..MaxWorkers}
    /\ runtime = ""
    /\ cwd = "/"
    /\ isatty = FALSE
    /\ disk = <<>>
    /\ console = <<>>
    /\ confirmed = <<>>
    /\ events = <<>>
    /\ presets_yaml = <<>>
    /\ NoRenames
    /\ NoTmdb
    /\ NoDiscs
    /\ NoPool

\* The calling thread: the uncached files are submitted, lines 291-315
Submit ==
    /\ op = "none"
    /\ LET uncached == SelectSeq(cfg.files, LAMBDA f : f \notin DOMAIN mediainfo_cache)
       IN  IF uncached = <<>>
           THEN /\ op' = "return"
                /\ ret' = Return(VNone)
                /\ UNCHANGED poolVars
           ELSE /\ op' = "as_completed"
                /\ submitted' = uncached
                /\ futures' = [i \in 1..Len(uncached) |-> [state |-> "pending"]]
                /\ UNCHANGED ret
    /\ UNCHANGED <<name, parts, ret2, batchVars, runVars, toolVars, wizardVars, events,
                   presets_yaml, renameVars, tmdbVars, discVars>>

\* A worker thread that is free takes the scan submitted first and runs
\* mediainfo, lines 301-307
WorkerStart ==
    /\ op = "as_completed"
    /\ FuturesIn("pending") # {}
    /\ Cardinality(FuturesIn("running")) < cfg.max_workers
    /\ LET i == CHOOSE i \in FuturesIn("pending") : \A j \in FuturesIn("pending") : i <= j
       IN  /\ futures' = [futures EXCEPT ![i] = [state |-> "running"]]
           /\ subprocess_calls' = Append(subprocess_calls, mediainfo_command(submitted[i]))
    /\ UNCHANGED <<name, parts, op, ret, ret2, batchVars, runVars, mediainfo_cache,
                   wizardVars, events, presets_yaml, renameVars, tmdbVars, discVars,
                   submitted>>

\* A worker thread returns from scan_file, lines 308-312
WorkerReturn ==
    /\ op = "as_completed"
    /\ \E i \in FuturesIn("running"), run \in MediainfoRuns :
          futures' = [futures EXCEPT ![i] = [state |-> "done", result |-> scan_file(run)]]
    /\ UNCHANGED <<name, parts, op, ret, ret2, batchVars, runVars, toolVars, wizardVars,
                   events, presets_yaml, renameVars, tmdbVars, discVars, submitted>>

\* The calling thread takes a completed future and stores its result,
\* lines 316-318
StoreCompleted ==
    /\ op = "as_completed"
    /\ \E i \in FuturesIn("done") :
          /\ mediainfo_cache' = store_result(mediainfo_cache, submitted[i], futures[i].result)
          /\ futures' = [futures EXCEPT ![i].state = "consumed"]
          /\ events' = Append(events, <<"store", submitted[i]>>)
    /\ UNCHANGED <<name, parts, op, ret, ret2, batchVars, runVars, subprocess_calls,
                   wizardVars, presets_yaml, renameVars, tmdbVars, discVars, submitted>>

\* The calling thread leaves the with block when every future was taken
PrewarmReturn ==
    /\ op = "as_completed"
    /\ FuturesIn("consumed") = 1..Len(futures)
    /\ op' = "return"
    /\ ret' = Return(VNone)
    /\ UNCHANGED <<name, parts, ret2, batchVars, runVars, toolVars, wizardVars, events,
                   otherVars>>

NextPool ==
    \/ Submit
    \/ WorkerStart
    \/ WorkerReturn
    \/ StoreCompleted
    \/ PrewarmReturn

SpecPool == InitPool /\ [][NextPool]_vars

-----------------------------------------------------------------------------
\* C1: slugging is idempotent: slugify_title (both scripts) and the slug
\* pipeline of guess_series_slug, applied to their own output, return it
\* unchanged.
C1_SlugIdempotent ==
    op \in {"slugify_title_twice", "rr_slugify_title_twice", "guess_series_slug_twice"}
        => ret2 = ret

\* C1 witness: a title that slugging changes has been slugged twice
C1_Witness ==
    /\ op = "slugify_title_twice"
    /\ ret # name
    /\ ret # ""

\* The titles made of two alphanumeric runs joined by one apostrophe of the
\* set quotes, and the concatenation of the two runs
Apostrophes == {APOS, LSQUO, RSQUO}

JoinedBy(s, quotes) ==
    /\ Len(s) >= 3
    /\ \E i \in 2..(Len(s) - 1) :
          /\ Ch(s, i) \in quotes
          /\ \A k \in (1..Len(s)) \ {i} : Ch(s, k) \in AlnumSet

RunsJoined(s) ==
    LET i == CHOOSE k \in 1..Len(s) : Ch(s, k) \notin AlnumSet
    IN  SubSeq(s, 1, i - 1) \o SubSeq(s, i + 1, Len(s))

\* C2: slugify_title removes every apostrophe variant (straight and both
\* curly forms) without leaving a dot: two alphanumeric runs joined by one
\* apostrophe slug to their concatenation.
C2_ApostropheVariantsRemoved ==
    (op \in {"slugify_title", "rr_slugify_title"} /\ JoinedBy(name, Apostrophes))
        => ret = RunsJoined(name)

-----------------------------------------------------------------------------
\* s starts with prefix
HasPrefix(s, prefix) == Len(s) >= Len(prefix) /\ SubSeq(s, 1, Len(prefix)) = prefix

\* C3: in both episode filename builders an empty episode title leaves no
\* segment behind: the episode tag S<season>E<episode> is followed by exactly
\* one dot and then the resolution token, and the filename has no two
\* consecutive dots.
C3_EmptyTitleOmitted ==
    (op \in {"build_dest_filename", "build_btn_filename"} /\ parts = <<"">>) =>
        /\ ~Contains(ret2, "..")
        /\ \E tag \in {"The.Show.S01E01", "The.Show.S01E100"} :
              HasPrefix(ret2, tag \o "." \o ret.val.resolution)

-----------------------------------------------------------------------------
\* C4: the probe adapter never raises: for every probe output, whatever
\* fields are missing or malformed (a non-numeric Height or Channels, a
\* non-mapping extra or media value, absent tracks),
\* detect_metadata_from_mediainfo, detect_metadata_from_file and
\* parse_audio_track return a value.
C4_ProbeAdapterNeverRaises ==
    op \in {"detect_metadata_from_mediainfo", "detect_metadata_from_file", "parse_audio_track"}
        => ~Raised(ret)

-----------------------------------------------------------------------------
\* The later samples of the season that differ from the first
DifferingSamples == {i \in 2..Len(metadata_samples) : metadata_samples[i] # metadata_samples[1]}

\* C5: the metadata resolved for a batch is the first sample's, field for
\* field, whatever the later samples yield: once the first sample is there,
\* detect_season_metadata and the metadata block of process_disc_interactive
\* return (they do not abort), what they return equals the first sample's
\* metadata, and detect_season_metadata has warned if a later sample differs.
C5_FirstSampleAuthoritative ==
    /\ (op = "detect_season_metadata" /\ metadata_samples # <<>>) =>
          /\ ~Raised(ret)
          /\ ret.val = metadata_samples[1]
          /\ DifferingSamples # {} => warnings # <<>>
    /\ (op = "process_disc_interactive:metadata"
            /\ ~Raised(detect_metadata_from_file(infos[1]))) =>
          /\ ~Raised(ret)
          /\ ret.val = detect_metadata_from_file(infos[1]).val

\* The files of the season directory with a supported video extension
SupportedFiles ==
    {season_dir[i] : i \in {j \in 1..Len(season_dir) :
         StrLower(PathSuffix(season_dir[j])) \in {".mkv", ".mp4", ".avi", ".m2ts", ".ts"}}}

\* C6: detect_season_metadata examines at most 3 files, namely the first
\* three files with a supported video extension in sorted name order, one
\* after the other in that order; for a directory with no such file it
\* examines nothing and returns a record equal to FALLBACK_META.
C6_SamplesFirstThreeSorted ==
    op \in {"detect_season_metadata:for", "detect_season_metadata", "build_dest_filename"} =>
        LET supported == SupportedFiles
            before(f) == {g \in supported : StrLess(g, f)}
            seen == {examined[k] : k \in 1..Len(examined)}
        IN  /\ Len(examined) <= 3
            /\ \A i \in 1..Len(examined) :
                  /\ examined[i] \in supported
                  /\ before(examined[i]) = {examined[k] : k \in 1..(i - 1)}
            /\ (op # "detect_season_metadata:for" /\ ~Raised(ret)) =>
                  seen = {f \in supported : Cardinality(before(f)) < 3}
            /\ (op = "detect_season_metadata" /\ supported = {}) =>
                  /\ examined = <<>>
                  /\ ret = Return(FALLBACK_META)

\* C6 witness: a directory of four supported files, listed out of order, of
\* which the first three in name order were examined
C6_Witness ==
    /\ op = "detect_season_metadata"
    /\ season_dir = <<"e.ts", "d [WEBDL-720p].mp4", "a.mkv", "B.MKV">>
    /\ examined = <<"B.MKV", "a.mkv", "d [WEBDL-720p].mp4">>
    /\ ~Raised(ret)

\* C7: every filename build_dest_filename returns, for a series slug from
\* guess_series_slug, an alphanumeric group, an episode title and the
\* metadata detect_season_metadata returned, consists of the characters
\* a-z, A-Z, 0-9, "." and "-".
C7_FilenameCharset ==
    op = "build_dest_filename" =>
        \A i \in 1..Len(ret2) : Ch(ret2, i) \in AlnumSet \cup {".", "-"}

-----------------------------------------------------------------------------
\* The labels detect_audio can put before the channels
AudioLabels == {audio_codecs[i].label : i \in 1..Len(audio_codecs)} \cup {FALLBACK_META.audio}

IsChannels(s) == Len(s) = 3 /\ Ch(s, 1) \in DigitSet /\ Ch(s, 2) = "." /\ Ch(s, 3) \in DigitSet

\* token is a label, the Atmos A, and a channel layout
HasAtmosSuffix(token) ==
    \E label \in AudioLabels :
        /\ Len(token) = Len(label) + 4
        /\ SubSeq(token, 1, Len(label) + 1) = label \o "A"
        /\ IsChannels(SubSeq(token, Len(label) + 2, Len(token)))

\* The first entry of the codec table that the text matches is TrueHD or DDP:
\* the four entries before TrueHD all need "dts", FLAC stands between the two
AtmosCapableFirst(text) ==
    LET l == StrLower(text)
    IN  /\ ~Contains(l, "dts")
        /\ \/ Contains(l, "truehd")
           \/ /\ ~Contains(l, "flac")
              /\ \/ \E w \in {"eac3", "e-ac3", "e-ac-3", "ddp", "dd+"} : Contains(l, w)
                 \/ \E p \in 1..Len(l) : MatchesAt(DolbyDigital \o SpacesPlus, l, p)

\* C8: detect_audio appends the Atmos A to the codec label if and only if the
\* text contains "atmos" (any case) and the first matching codec entry is
\* Atmos-capable (TrueHD or DDP); "DTS 5.1 Atmos" gives "DTS5.1" and
\* "TrueHD 7.1 Atmos" gives "TrueHDA7.1".
C8_AtmosSuffixGated ==
    op = "detect_audio" =>
        /\ HasAtmosSuffix(ret) <=> (Contains(StrLower(name), "atmos") /\ AtmosCapableFirst(name))
        /\ name = "DTS 5.1 Atmos" => ret = "DTS5.1"
        /\ name = "TrueHD 7.1 Atmos" => ret = "TrueHDA7.1"

\* C8 witness: Atmos named next to a codec that cannot carry it
C8_Witness ==
    /\ op = "detect_audio"
    /\ name = "DTS 5.1 Atmos"
    /\ ret = "DTS5.1"

\* C9: every filename extractor returns for every input, the empty string
\* included, and every string it returns is non-empty.
C9_ExtractorsTotal ==
    /\ op \in {"detect_resolution", "detect_source", "detect_audio", "detect_codec"}
          => ret # ""
    /\ op = "detect_remux" => ret \in BOOLEAN
    /\ op = "detect_source_and_resolution"
          => ret[1] # "" /\ ret[2] # "" /\ ret[3] \in BOOLEAN

\* C9 witness: the empty stem gave the fallback source
C9_Witness ==
    /\ op = "detect_source"
    /\ name = ""
    /\ ret = "BluRay"

\* What a quality block opener of the stem stands for
OpenerSource(tok) ==
    CASE tok = "[Bluray-1080p" -> "BluRay"
      [] tok = "[WEBDL-720p"   -> "WEB-DL"
      [] tok = "[hdtv-2160P"   -> "HDTV"

OpenerResolution(tok) ==
    CASE tok = "[Bluray-1080p" -> "1080p"
      [] tok = "[WEBDL-720p"   -> "720p"
      [] tok = "[hdtv-2160P"   -> "2160P"

\* A quality block starts at token i: an opener of the vocabulary that a
\* closing bracket follows
BlockAt(q, i) == q[i] \in BlockOpeners /\ \E j \in (i + 1)..Len(q) : q[j] = "]"

FirstBlock(q) == CHOOSE i \in 1..Len(q) : BlockAt(q, i) /\ \A k \in 1..(i - 1) : ~BlockAt(q, k)

\* C10: when the text holds a bracketed quality block with a source and a
\* resolution of the vocabulary, detect_source_and_resolution returns the
\* mapped source, that resolution and the Remux flag of the block, whatever
\* other keywords the text holds; only without a block does it use the loose
\* detectors.
C10_QualityBlockWins ==
    op = "detect_source_and_resolution" =>
        IF \E i \in 1..Len(parts) : BlockAt(parts, i)
        THEN LET i == FirstBlock(parts)
             IN  ret = <<OpenerSource(parts[i]), OpenerResolution(parts[i]),
                         i < Len(parts) /\ parts[i + 1] \in RemuxTokens>>
        ELSE ret = <<detect_source(name), detect_resolution(name), detect_remux(name)>>

\* C10 witness: a block without Remux in a text that names remux elsewhere
C10_Witness ==
    /\ op = "detect_source_and_resolution"
    /\ parts = <<"[Bluray-1080p", "]", "remux">>
    /\ ret = <<"BluRay", "1080p", FALSE>>

\* The season and the episode an episode tag S<season>E<episode> names
TagSeason(tag) == IntOf(SubSeq(tag, 2, 3))
TagEpisode(tag) == IntOf(SubSeq(tag, 5, Len(tag)))

\* C11: parse_episode_info returns (season, first episode number, title): for
\* a stem made of an episode tag, an optional -E<n> range suffix, the
\* separator, an optional absolute-number segment ("001 - " or "001-003 - ")
\* and a title, the range suffix and the absolute segment are skipped, the
\* episode is the one of the tag and the title is the title of the stem.
C11_RangeAndAbsoluteSkipped ==
    (op = "parse_episode_info" /\ parts[2] \in {"S01E01", "S01E99", "S02E100"} /\ parts[6] # "") =>
        ret = VTuple(<<TagSeason(parts[2]), TagEpisode(parts[2]), parts[6]>>)

\* C12: on every stem parse_episode_info matches, the title returned ends
\* before the first opening bracket after the episode tag: it holds no "["
\* and neither starts nor ends with whitespace.
C12_TitleStopsAtBracket ==
    (op = "parse_episode_info" /\ ret # VNone) =>
        /\ ~Contains(ret.v[3], "[")
        /\ Strip(ret.v[3], Whitespace) = ret.v[3]

\* A language list without duplicates, JA first if present, then EN if
\* present, then the remaining codes in ascending order
LanguagesOrdered(q) ==
    LET codes == {q[i] : i \in 1..Len(q)}
    IN  /\ \A i, j \in 1..Len(q) : i # j => q[i] # q[j]
        /\ "JA" \in codes => q[1] = "JA"
        /\ "EN" \in codes => q[IF "JA" \in codes THEN 2 ELSE 1] = "EN"
        /\ \A i, j \in 1..Len(q) :
              (i < j /\ {q[i], q[j]} \cap {"JA", "EN"} = {}) => StrLess(q[i], q[j])

\* C13: the language list detect_metadata_from_file produces for a file, and
\* the combined list process_disc_interactive builds across its samples,
\* hold no code twice and are ordered JA first if present, then EN if
\* present, then the remaining codes in ascending alphabetical order.
C13_LanguagesOrdered ==
    (op = "process_disc_interactive:metadata" /\ ~Raised(ret)) =>
        /\ LanguagesOrdered(ret.val.languages)
        /\ \A i \in 1..(IF Len(infos) < SampleSize THEN Len(infos) ELSE SampleSize) :
              LanguagesOrdered(detect_metadata_from_file(infos[i]).val.languages)

\* C13 witness: the samples of a disc name French, English, German and
\* Japanese, Japanese last, and English three times
C13_Witness ==
    /\ op = "process_disc_interactive:metadata"
    /\ Len(infos) = 2
    /\ ~Raised(ret)
    /\ detect_metadata_from_file(infos[1]).val.languages = <<"EN", "FR">>
    /\ detect_metadata_from_file(infos[2]).val.languages = <<"JA", "EN", "DE">>
    /\ ret.val.languages = <<"JA", "EN", "DE", "FR">>

\* The audio tracks of the probed file, and those of them that have the
\* highest priority of the table
ProbedAudio == AudioTracksOf(infos[1])
BestTracks ==
    {i \in 1..Len(ProbedAudio) :
        \A j \in 1..Len(ProbedAudio) :
            parse_audio_track(ProbedAudio[j].v).val[3] <= parse_audio_track(ProbedAudio[i].v).val[3]}

\* The probes that list the audio tracks of the probed file in another order
Reordered ==
    {Info(<<PlainVideo>> \o q) : q \in {r \in SeveralTracks :
        /\ Len(r) = Len(ProbedAudio)
        /\ {r[i] : i \in 1..Len(r)} = {ProbedAudio[i] : i \in 1..Len(ProbedAudio)}}}

\* C14: for a file with several audio tracks the audio token of the resolved
\* metadata is the one of the track with the highest priority in the table
\* (TrueHD Atmos > TrueHD > DTS-X > DTS-HD MA > DTS-HD > LPCM > FLAC > DTS >
\* AC3 > AAC > MP3), in whichever order the tracks are listed: in
\* detect_metadata_from_file and in detect_metadata_from_mediainfo.
C14_BestAudioTrackWins ==
    (infos[1] \in {Info(<<PlainVideo>> \o q) : q \in SeveralTracks}) =>
        /\ op = "detect_metadata_from_file" =>
              /\ \E i \in BestTracks :
                    ret.val.audio = parse_audio_track(ProbedAudio[i].v).val[1] \o " "
                                    \o parse_audio_track(ProbedAudio[i].v).val[2]
              /\ \A other \in Reordered :
                    detect_metadata_from_file(other).val.audio = ret.val.audio
        /\ (op = "detect_metadata_from_mediainfo" /\ use_mi) =>
              /\ \E i \in BestTracks : ret.val.audio = mi_audio_token(ProbedAudio[i].v)
              /\ \A other \in Reordered :
                    detect_metadata_from_mediainfo(name, use_mi, other).val.audio = ret.val.audio

\* The layout the channel count c stands for
ChannelLayout(c) ==
    IF c >= 8 THEN "7.1" ELSE IF c >= 6 THEN "5.1" ELSE IF c = 1 THEN "1.0" ELSE "2.0"

\* C15: for every integer channel count c the channel layout of the probe
\* adapter is 7.1 if c >= 8, else 5.1 if c >= 6, else 1.0 if c = 1, else 2.0,
\* the same in detect_metadata_from_mediainfo and in parse_audio_track.
C15_ChannelLayoutThresholds ==
    \A c \in ChannelCounts :
        infos[1] = Info(<<PlainVideo, ChannelTrack(c)>>) =>
            /\ op = "parse_audio_track" => ret.val[2] = ChannelLayout(c)
            /\ (op = "detect_metadata_from_mediainfo" /\ use_mi) =>
                  ret.val.audio = "DD" \o ChannelLayout(c)

\* The files process_seasons has taken so far, and the episode messages
\* among those it passed to log()
FilesTaken == {video_files[i] : i \in 1..files_done}
EpisodeLogs ==
    {k \in 1..Len(logs) : logs[k][1] \in {"[LINKED]   ", "[EXISTS]   ", "[DRY-RUN]  "}}

\* The decimal digits of an episode number: two for 0 to 99, padded with a
\* zero, three for 100 to 999
EpisodeDigits(episode) ==
    IF episode < 10 THEN "0" \o IntToStr(episode) ELSE IntToStr(episode)

\* C16: the episode number of a built filename has 2 digits, zero-padded, for
\* 1 <= episode <= 99 and 3 digits for episode >= 100 (99 gives E99, 100 gives
\* E100), and the tag process_seasons writes to the log has the same width as
\* the tag of the filename of that episode.
C16_EpisodeTagWidth ==
    \A k \in EpisodeLogs :
        \E f \in FilesTaken :
            LET season == ParsedStems[f].v[1]
                episode == ParsedStems[f].v[2]
                tag == "S0" \o IntToStr(season) \o "E" \o EpisodeDigits(episode)
            IN  /\ ParsedStems[f] # VNone
                /\ Len(EpisodeDigits(episode)) = (IF episode >= 100 THEN 3 ELSE 2)
                /\ logs[k][2] = tag
                /\ logs[k][4] = build_dest_filename(name, Group, season, episode,
                                                    ParsedStems[f].v[3], season_metadata)
                /\ HasPrefix(logs[k][4], name \o "." \o tag \o ".")

\* C16 witness: episodes 99 and 100 of a season have been linked
C16_Witness ==
    /\ op = "process_seasons"
    /\ \E i, j \in EpisodeLogs :
          /\ logs[i][2] = "S01E100" /\ HasPrefix(logs[i][4], "The.Show.S01E100.y.")
          /\ logs[j][2] = "S01E99" /\ HasPrefix(logs[j][4], "The.Show.S01E99.x.")

\* The stem holds no episode tag S<dd>E<dd>
NoEpisodeTag(stem) ==
    ~\E p \in 1..Len(stem) :
        /\ At(stem, p) = "S" /\ At(stem, p + 3) = "E"
        /\ \A k \in {1, 2, 4, 5} : At(stem, p + k) \in DigitSet

\* The file names of the model that hold no episode tag
TaglessNames == {f \in SeasonFileNames : NoEpisodeTag(PathStem(f))}

\* C18: on a stem without episode pattern parse_episode_info returns None
\* and does not raise, and process_seasons then skips the file: it adds one
\* to the skipped counter and to no other, attempts no mkdir and no link for
\* it, and goes on with the next file until all files are taken.
C18_UnparsedFileSkipped ==
    op \in {"process_seasons:for", "process_seasons"} /\ ~Raised(ret) /\ video_files # <<>> =>
        LET unparsed == Cardinality({i \in 1..files_done : video_files[i] \in TaglessNames})
        IN  /\ \A i \in 1..files_done :
                  video_files[i] \in TaglessNames => ParsedStems[video_files[i]] = VNone
            /\ counts.skipped = unparsed
            /\ counts.linked + counts.already + counts.would_link + counts.errors
                  = files_done - unparsed
            /\ counts.total <= files_done - unparsed
            /\ Cardinality({k \in 1..Len(fs_calls) : fs_calls[k][1] = "mkdir"})
                  = (IF dry_run THEN 0 ELSE files_done - unparsed)
            /\ \A k \in 1..Len(fs_calls) :
                  fs_calls[k][1] = "link" => fs_calls[k][2] \notin TaglessNames
            /\ op = "process_seasons" => files_done = Len(video_files)

\* C18 witness: the first file of the season was skipped and the second one
\* linked
C18_Witness ==
    /\ op = "process_seasons"
    /\ video_files = <<"Extras.mkv", "S01E01 - Pilot.mkv">>
    /\ counts = [total |-> 1, linked |-> 1, already |-> 0, skipped |-> 1, errors |-> 0,
                 would_link |-> 0]
    /\ Len(fs_calls) = 2
    /\ fs_calls[2][1] = "link" /\ fs_calls[2][2] = "S01E01 - Pilot.mkv"

\* How often mediainfo was run for a file
MediainfoCallsFor(file_path) ==
    Cardinality({k \in 1..Len(subprocess_calls) :
                    subprocess_calls[k] = mediainfo_command(file_path)})

\* C17: across the calls of run_mediainfo_json, get_file_duration,
\* detect_metadata_from_file and prewarm_mediainfo_cache of one run, mediainfo
\* is run at most once for a file path: once for a path that is in the cache,
\* a failed probe being cached as None, and never for another; and a probing
\* function works on what the cache holds for its path.
C17_ProbedOncePerPath ==
    /\ \A k \in 1..Len(subprocess_calls) : subprocess_calls[k][3] \in MediaPaths
    /\ \A file_path \in MediaPaths :
          /\ MediainfoCallsFor(file_path) <= 1
          /\ MediainfoCallsFor(file_path) = 1 <=> file_path \in DOMAIN mediainfo_cache
          /\ op \in {"run_mediainfo_json", "get_file_duration", "detect_metadata_from_file"}
                /\ name = file_path
             => /\ file_path \in DOMAIN mediainfo_cache
                /\ infos[Len(infos)] = mediainfo_cache[file_path]

\* C17 witness: a file whose probe failed was probed by three calls, the
\* last one get_file_duration, and mediainfo was run for it once; the other
\* file was scanned by prewarm_mediainfo_cache before
C17_Witness ==
    /\ op = "get_file_duration"
    /\ name = "BD1/00001.mkv"
    /\ infos = <<VNone, VNone, VNone>>
    /\ mediainfo_cache = ("BD1/00001.mkv" :> VNone) @@ ("BD2/00001.mkv" :> GoodProbe)
    /\ subprocess_calls = <<mediainfo_command("BD2/00001.mkv"), mediainfo_command("BD1/00001.mkv")>>

\* A path is under a root: it is the root or begins with the root and "/"
UnderRoot(path, root) == path = root \/ startswith(path, root \o "/")

\* What the docker runtime is to make of a content path, blanks around it
\* apart: a path under the container root is kept; else a path whose absolute
\* form is under the host root becomes the container root plus what follows
\* the host root; else the path is kept
ContentPathMapped(raw0, mapped, host_root, container_root) ==
    LET raw == Strip(raw0, Whitespace)
        abs_path == abspath(raw, cwd)
    IN  IF UnderRoot(raw, container_root) THEN mapped = raw
        ELSE IF UnderRoot(abs_path, host_root)
        THEN mapped = container_root \o SubSeq(abs_path, Len(host_root) + 1, Len(abs_path))
        ELSE mapped = raw

\* C19: in docker runtime a content path under the container data root is
\* returned unchanged, a path under the host data root is returned as the
\* container data root plus the same suffix, and a path under neither is
\* returned unchanged, by map_content_path for the configured roots and by
\* host_to_container_path of mkbrr_helper.py for its fixed roots.
C19_ContentPathMapping ==
    /\ op = "map_content_path" /\ runtime = "docker"
          => ContentPathMapped(name, ret, cfg.paths.host_data_root,
                               cfg.paths.container_data_root)
    /\ op = "host_to_container_path"
          => ContentPathMapped(name, ret, HOST_DATA_ROOT, CONTAINER_DATA_ROOT)

\* C20: in native runtime, an operation whose path is missing (the mapped
\* content path of a create; the mapped torrent file or the mapped content
\* path of a check) prints the error for that path and neither shows a
\* command for confirmation nor runs a subprocess.
C20_MissingPathNeverRunsMkbrr ==
    [][runtime = "native" /\ name' # "" =>
          LET content_path == map_content_path(cfg.paths, runtime, name', cwd)
              torrent_path == map_torrent_path(cfg.paths, runtime, ret2', cwd)
              content_missing == ~os_path_exists(content_path, cwd, disk)
              torrent_missing == ~os_path_exists(torrent_path, cwd, disk)
              reported == IF Len(console') >= Len(console) + 2 THEN console'[Len(console) + 2]
                          ELSE ""
          IN  /\ op' = "create" /\ content_missing
                 => /\ reported = "Content path does not exist: " \o content_path
                    /\ confirmed' = confirmed
                    /\ subprocess_calls' = subprocess_calls
              /\ op' = "check" /\ (torrent_missing \/ content_missing)
                 => /\ reported = (IF torrent_missing
                                   THEN "Torrent file not found: " \o torrent_path
                                   ELSE "Content path not found: " \o content_path)
                    /\ confirmed' = confirmed
                    /\ subprocess_calls' = subprocess_calls
      ]_vars

\* C20 witness: in native runtime a create has run mkbrr, then a check of a
\* content path that is not on the disk was refused: one command confirmed,
\* one run, and the error printed last
C20_Witness ==
    /\ runtime = "native"
    /\ op = "check"
    /\ ret = VNone
    /\ ~os_path_exists(map_content_path(cfg.paths, runtime, name, cwd), cwd, disk)
    /\ console = <<"Action", "Command Preview", "mkbrr create finished.",
                   "Action", "Content path not found: /mnt/user/data/tv/Gone">>
    /\ Len(confirmed) = 1
    /\ subprocess_calls = <<<<"mkbrr", "create", "/mnt/user/data/tv/Show", "-P", "custom",
                              "--preset-file", "/mnt/cache/appdata/mkbrr/presets.yaml">>>>

\* C27: with dry_run true process_seasons makes no directory and no hardlink
\* and ensure_hardlink calls no os.link; ensure_hardlink returns "would-link"
\* exactly when the source exists and the destination does not; "linked" is
\* returned only when dry_run is false; and a missing source gives
\* "missing-src" whatever else holds.
C27_DryRunChangesNothing ==
    /\ dry_run => fs_calls = <<>>
    /\ \A k \in 1..Len(link_calls) :
          LET world == link_calls[k][1]
              status == link_calls[k][2]
          IN  /\ dry_run => (status = "would-link" <=> world.src_exists /\ ~world.dst_exists)
              /\ dry_run => ~calls_link(world, dry_run)
              /\ status = "linked" => ~dry_run
              /\ ~world.src_exists => status = "missing-src"

\* C27 witness: a dry run is over in which one file would be linked and the
\* source of another was gone while its destination was there
C27_Witness ==
    /\ op = "process_seasons"
    /\ dry_run
    /\ Len(link_calls) = 2
    /\ link_calls[1][2] = "would-link"
    /\ ~link_calls[2][1].src_exists /\ link_calls[2][1].dst_exists
    /\ link_calls[2][2] = "missing-src"
    /\ counts.would_link = 1 /\ counts.errors = 1

\* C28: at the end of process_seasons every video file of the season has
\* been counted once in skipped, linked, already, would_link or errors; total
\* is the number of files a hardlink status was obtained for; linked is 0 in
\* a dry run and would_link is 0 in a live run.
C28_EveryFileCountedOnce ==
    op = "process_seasons" /\ ~Raised(ret) =>
        /\ counts.skipped + counts.linked + counts.already + counts.would_link + counts.errors
              = Len(all_video_files(season_dir))
        /\ counts.total = Len(link_calls)
        /\ counts.linked = Cardinality({k \in 1..Len(link_calls) : link_calls[k][2] = "linked"})
        /\ counts.already
              = Cardinality({k \in 1..Len(link_calls) : link_calls[k][2] = "exists-same"})
        /\ counts.would_link
              = Cardinality({k \in 1..Len(link_calls) : link_calls[k][2] = "would-link"})
        /\ counts.skipped
              = Cardinality({f \in FilesTaken : ParsedStems[f] = VNone})
        /\ dry_run => counts.linked = 0
        /\ ~dry_run => counts.would_link = 0

\* C28 witness: a live run of three files is over: one skipped, one linked,
\* one whose directory could not be made
C28_Witness ==
    /\ op = "process_seasons"
    /\ ~dry_run
    /\ Len(video_files) = 3
    /\ counts = [total |-> 1, linked |-> 1, already |-> 0, skipped |-> 1, errors |-> 1,
                 would_link |-> 0]

\* C29: in the wizard loop mkbrr is run only directly after the user
\* confirmed the command preview of that operation, and
\* maybe_fix_torrent_permissions is invoked only directly after a confirmed
\* create command that exited with code 0: never after inspect or check, a
\* declined confirmation or a non-zero exit code.
C29_RunAfterConfirmFixAfterCreate ==
    /\ Cardinality({k \in 1..Len(events) : events[k][1] = "subprocess.run"})
           = Len(subprocess_calls)
    /\ \A k \in 1..Len(events) :
          /\ events[k][1] = "subprocess.run"
                => k > 1 /\ events[k - 1] = <<"confirm_cmd", events[k][2], TRUE>>
          /\ events[k][1] = "maybe_fix_torrent_permissions"
                => /\ k > 2
                   /\ events[k - 1] = <<"subprocess.run", "create", 0>>
                   /\ events[k - 2] = <<"confirm_cmd", "create", TRUE>>

\* C29 witness: permissions were fixed after one create, and another create
\* was confirmed and exited with code 1
C29_Witness ==
    /\ \E k \in 1..Len(events) : events[k][1] = "maybe_fix_torrent_permissions"
    /\ \E k \in 1..Len(events) : events[k] = <<"subprocess.run", "create", 1>>
    /\ events[Len(events)] = <<"subprocess.run", "create", 1>>

\* The presets mapping of the file, when it has a non-empty one
PresetsMappingOf(doc) ==
    IF doc.exists /\ doc.parses /\ doc.root.t = "dict" /\ "presets" \in DOMAIN doc.root.v
       /\ doc.root.v["presets"].t = "dict" /\ Truthy(doc.root.v["presets"])
    THEN doc.root.v["presets"].keys
    ELSE <<>>

\* C21: loading presets never raises: for a file that is missing, fails to
\* parse, has no presets key or has an empty or non-mapping presets value
\* the loader returns the fallback list; otherwise it returns the preset
\* names in file order, with btn moved to the first position when present.
C21_LoadingPresetsNeverRaises ==
    op \in {"load_presets_from_yaml", "load_presets"} =>
        LET keys == PresetsMappingOf(presets_yaml)
        IN  /\ ~Raised(ret)
            /\ keys = <<>> => ret = Return(FALLBACK_PRESETS)
            /\ keys # <<>> =>
                  ret = Return(IF \E i \in 1..Len(keys) : keys[i] = "btn"
                               THEN <<"btn">> \o SelectSeq(keys, LAMBDA x : x # "btn")
                               ELSE keys)

\* The calls of kind made so far, as positions of events
EventsOf(kind) == {k \in 1..Len(events) : events[k][1] = kind}

\* C22: execute_renames_safely never executes a rename whose target existed
\* on disk at pre-flight time and differs from its source, or whose target
\* is also the target of an earlier pair of the batch; so no two renames
\* executed in one call have the same target path.
C22_NoConflictingRenameExecuted ==
    /\ \A k \in EventsOf("rename") :
          LET old_path == events[k][2]
              new_path == events[k][3]
              i == events[k][5]
          IN  /\ renames[i] = <<old_path, new_path>>
              /\ ~(new_path # old_path
                   /\ \E e \in EventsOf("exists") : events[e] = <<"exists", new_path, TRUE>>)
              /\ \A j \in 1..(i - 1) : renames[j][2] # new_path
    /\ \A k, m \in EventsOf("rename") : k # m => events[k][3] # events[m][3]

\* C22 witness: a call returned after it renamed one file and refused a
\* later pair with the same target
C22_Witness ==
    /\ op = "return"
    /\ \E k \in EventsOf("rename") : events[k][4]
    /\ \E i \in 1..Len(conflicts) : conflicts[i][3] = "duplicate target in batch"

\* The user was asked and did not answer y
Declined ==
    \E k \in EventsOf("input") : StrLower(Strip(events[k][3], SpaceSet)) # "y"

\* C23: the returned (successful, skipped, successful_renames) satisfies
\* successful + skipped = len(renames) and successful =
\* len(successful_renames); when the user does not answer y at the prompt
\* the result is (0, len(renames), []), no file has been renamed and no
\* directory created.
C23_CountsAddUpAndDeclineChangesNothing ==
    (op = "return" /\ ~Raised(ret)) =>
        LET result == ret.val.v
        IN  /\ result[1] + result[2] = Len(renames)
            /\ result[1] = Len(result[3])
            /\ Declined =>
                  /\ result = <<0, Len(renames), <<>>>>
                  /\ EventsOf("rename") = {}
                  /\ \A k \in EventsOf("mkdir") : ~events[k][3]

\* C24: the manifest listing every planned operation is written before the
\* confirmation prompt and before the first rename: no prompt and no rename
\* precedes the manifest write.
C24_ManifestBeforePromptAndRenames ==
    \A k \in EventsOf("input") \cup EventsOf("rename") :
        \E j \in 1..(k - 1) : events[j][1] = "write" /\ events[j][3] = renames

\* C24 witness: the user was asked, answered y and a file was renamed
C24_Witness ==
    /\ EventsOf("input") # {}
    /\ \E k \in EventsOf("rename") : events[k][4] /\ Len(renames) > 1

\* The call of _tmdb_request is over
TmdbDone == op \in {"return", "raise"}

\* C25: one call of _tmdb_request makes at most TMDB_MAX_RETRIES HTTP
\* attempts and ends with the response data or None; it makes no attempt on
\* a valid cache hit, stops at the first successful response, stops after a
\* single attempt on a 4xx status other than 429, and never sleeps after
\* its final attempt.
C25_BoundedAttemptsDataOrNone ==
    /\ Cardinality(EventsOf("get")) <= TMDB_MAX_RETRIES
    /\ TmdbDone => ret \in {Return(TmdbData), Return(VNone)}
    /\ (cfg.cache_key # "" /\ events = <<>> /\ get_cached_response(tmdb_cache) # VNone
        /\ TmdbDone) => ret = Return(TmdbData)
    /\ \A k \in EventsOf("get") :
          LET outcome == events[k][3]
              last == \A m \in EventsOf("get") : m <= k
          IN  /\ "status" \in DOMAIN outcome /\ outcome.status = 200 => last
              /\ ("status" \in DOMAIN outcome /\ outcome.status \in 400..499
                  /\ outcome.status # 429) => last /\ (TmdbDone => ret = Return(VNone))
    /\ \A k \in EventsOf("sleep") :
          /\ events[k - 1][1] = "get"
          /\ events[k - 1][2] < TMDB_MAX_RETRIES

\* The episode numbers of all discs done, in order
RECURSIVE Flatten(_)
Flatten(q) == IF q = <<>> THEN <<>> ELSE Head(q) \o Flatten(Tail(q))

\* C26: in single-season processing with auto mode or part-tagged discs
\* each disc starts at the episode after the last one assigned on the
\* previous disc: the numbers assigned over all discs are the start
\* episode and the numbers following it, each once and none left out, also
\* when extras were skipped on earlier discs.
C26_EpisodesContiguousAcrossDiscs ==
    (discs # <<>> /\ (cfg.auto_mode \/ has_parts(discs))) =>
        LET assigned == Flatten(episodes)
        IN  \A k \in 1..Len(assigned) : assigned[k] = cfg.start_ep + (k - 1)

\* C26 witness: extras were skipped on a disc that kept some episodes, and
\* a later disc with part tag was numbered after it
C26_Witness ==
    /\ discs # <<>>
    /\ has_parts(discs)
    /\ ~cfg.auto_mode
    /\ cfg.start_ep = 5
    /\ \E d \in 1..Len(episodes) :
          /\ 0 < Len(episodes[d])
          /\ Len(episodes[d]) < discs[d].files
          /\ \E e \in (d + 1)..Len(episodes) : episodes[e] # <<>>

\* On return of prewarm_mediainfo_cache every path submitted has its cache
\* entry, the result of its scan, and the entries there before are as they
\* were
PrewarmedOnReturn ==
    op = "return" =>
        /\ \A i \in 1..Len(submitted) :
              /\ submitted[i] \in DOMAIN mediainfo_cache
              /\ mediainfo_cache[submitted[i]] = futures[i].result
              /\ Cardinality({k \in EventsOf("store") : events[k][2] = submitted[i]}) = 1
        /\ \A i \in 1..Len(cfg.files) : cfg.files[i] \in DOMAIN mediainfo_cache
        /\ \A f \in DOMAIN mediainfo_cache :
              (\A i \in 1..Len(submitted) : submitted[i] # f) => mediainfo_cache[f] = GoodProbe

\* A step that changes _mediainfo_cache is the calling thread taking one
\* completed future: the workers' steps leave the cache as it is
CacheWrittenByCaller ==
    mediainfo_cache' # mediainfo_cache =>
        \E i \in FuturesIn("done") :
            /\ futures' = [futures EXCEPT ![i].state = "consumed"]
            /\ mediainfo_cache' = store_result(mediainfo_cache, submitted[i], futures[i].result)

\* C30: during prewarm_mediainfo_cache worker threads only run the probe
\* and return its result; every write to _mediainfo_cache happens in the
\* calling thread as futures complete, so no interleaving of the workers
\* loses or corrupts an entry, and on normal return every requested path
\* that was uncached has exactly one cache entry, probe data or None.
C30_CacheWrittenByCallerOnly == [](PrewarmedOnReturn) /\ [][CacheWrittenByCaller]_vars

\* C30 witness: two workers ran three scans, the result of the scan
\* submitted last was stored first, the scan submitted first failed
C30_Witness ==
    /\ op = "return"
    /\ cfg.max_workers = 2
    /\ Len(submitted) = 3
    /\ events[1] = <<"store", submitted[3]>>
    /\ mediainfo_cache[submitted[1]] = VNone
    /\ mediainfo_cache[submitted[3]] = GoodProbe

=============================================================================
